---- MODULE Spec2Model ----
(***************************************************************************)
(* Connection & sync orchestrator of the haven CLI: SSH key discovery and  *)
(* usability analysis (cli/src/ssh/keys.ts), and the connect state machine *)
(* (cli/src/commands/connect.ts) over the registry, the SSH host config,   *)
(* known_hosts and the sync engine.                                        *)
(***************************************************************************)
EXTENDS Integers, Sequences, FiniteSets, TLC

VARIABLES
    sshDir,     \* the ~/.ssh directory: [exists, files: key name -> file state]
    agent,      \* the ssh-agent: [ok: `ssh-add -l` exits 0, fps: loaded fingerprints]
    kres,       \* the last call of the key module and what it returned
    \* --- what connect reads and writes outside the process
    registry,   \* connections.json: canonical local path -> ConnectionConfig or none
    sessions,   \* session state files: canonical local path -> SessionState or none
    sshConfig,  \* ~/.ssh/config: none when the file is missing, else its text
    knownHosts, \* ~/.ssh/known_hosts: the host entries it holds
    engine,     \* the sync engine's sessions: session name -> the sessions created with it
    \* --- one execution of connect
    pc,         \* where the execution stands
    run,        \* executions started so far
    options,    \* the ConnectOptions of the execution
    localPath,  \* connect's localPath
    config,     \* connect's config (none before it is resolved)
    found,      \* the registry entry connect looked up at its start, or none
    idleTimeout,\* connect's idleTimeout (seconds) or none
    useGitignore, \* connect's useGitignore
    exitCode,   \* none while running, else the code given to process.exit
    exitAt,     \* the value of pc when the process exited, "" while it runs
    \* --- what the execution did, in order
    probes,     \* the results of testConnection
    purges,     \* the calls of removeHostKey: "option" (--reset-host-key) or "rotated"
    syncLog,    \* the calls of startSync and how each ended
    prompts,    \* the questions asked
    reconnectAnswer, \* what prompt() returned for "Reconnect? [Y/n]", or none
    events,     \* failures and writes of the execution: [kind, detail]
    before,     \* registry, sessions and engine as the execution found them
    \* --- the ssh config module and the sync module called on their own
    cfgStart,   \* ~/.ssh/config before the first call
    cfgPrev,    \* ~/.ssh/config before the last call
    cfgOps,     \* the calls of writeHostConfig and removeHostConfig, in order
    syncOps,    \* the calls of the sync module, in order, and how each ended
    syncMsgs,   \* the messages and log records the sync module produced
    \* --- the pure functions of the sync module, and the command line
    gitignore,  \* the project's .gitignore: none when missing, else its lines
    fnCalls,    \* the calls of the pure functions, in order: [fn, arg, result]
    cli,        \* what main did with the argument vector of the process
    \* --- subprocesses and concurrent CLI processes
    child,      \* the call of execSafe in progress: its child, timer and promise
    writers     \* the CLI processes inside writeHostConfig: where each is, what it read

keyVars == <<sshDir, agent, kres>>
worldVars == <<registry, sessions, sshConfig, knownHosts, engine>>
execVars == <<pc, run, options, localPath, config, found, idleTimeout, useGitignore, exitCode, exitAt>>
logVars == <<probes, purges, syncLog, prompts, reconnectAnswer, events, before>>

procVars == <<child, writers>>

libVars == <<gitignore, fnCalls, cli, procVars>>

callVars == <<cfgStart, cfgPrev, cfgOps, syncOps, syncMsgs, libVars>>

vars == <<keyVars, worldVars, execVars, logVars, callVars>>

\* Optional values: <<>> is null/undefined, <<x>> is x.
None == <<>>
Some(x) == <<x>>

----------------------------------------------------------------------------
(* ssh/keys.ts                                                             *)

HAVEN_KEY_NAME == "haven_ed25519"

\* File names (without ".pub") a key pair may be stored under in the directory.
UserKeyNames == {"id_ed25519", "my_custom_key"}
KeyNames == UserKeyNames \cup {HAVEN_KEY_NAME}

\* Fingerprints `ssh-keygen -lf` can print for a user's key; "SHA256:haven" is
\* the fingerprint of the pair ssh-keygen creates for generateHavenKey.
UserFingerprints == {"SHA256:a", "SHA256:b"}
NoFingerprint == "none"

\* One key name's files:
\*   priv        the private file exists
\*   pub         the ".pub" file: "absent", "empty" (whitespace only),
\*               "garbage" (text ssh-keygen -lf rejects) or "valid"
\*   passphrase  `ssh-keygen -y -P "" -f priv` exits non-zero
\*   fp          what `ssh-keygen -lf priv` prints, or NoFingerprint when it fails
NoFile == [priv |-> FALSE, pub |-> "absent", passphrase |-> FALSE, fp |-> NoFingerprint]
PrivOnly == [priv |-> TRUE, pub |-> "absent", passphrase |-> FALSE, fp |-> NoFingerprint]
PubOnly == [priv |-> FALSE, pub |-> "valid", passphrase |-> FALSE, fp |-> NoFingerprint]

GeneratedPair_WithPassphrase ==
    [priv |-> TRUE, pub |-> "valid", passphrase |-> TRUE, fp |-> "SHA256:haven"]

\* The pair `ssh-keygen -t ed25519 -f <haven key> -N "" -C haven-cli` writes.
GeneratedPair == [priv |-> TRUE, pub |-> "valid", passphrase |-> FALSE, fp |-> "SHA256:haven"]

UserFileStates ==
    {NoFile, PrivOnly}
    \cup [priv : {TRUE}, pub : {"empty", "garbage"}, passphrase : {FALSE}, fp : {NoFingerprint}]
    \cup [priv : {TRUE}, pub : {"valid"}, passphrase : BOOLEAN,
          fp : UserFingerprints \cup {NoFingerprint}]

\* The haven pair with its public file overwritten by text that is no key record.
DamagedPair == [priv |-> TRUE, pub |-> "garbage", passphrase |-> FALSE, fp |-> NoFingerprint]

HavenFileStates == {NoFile, PrivOnly, PubOnly, DamagedPair, GeneratedPair}

isValidSshPublicKeyFile(f) == f.pub = "valid"

\* readFileSync(publicKeyPath).trim(), as far as the code looks at it: empty or not.
publicKeyNonEmpty(f) == f.pub \in {"garbage", "valid"}

\* The key names whose pair findExistingKeys returns (an SshKeyInfo is
\* determined by its name: privateKeyPath = dir/name, publicKeyPath = dir/name.pub).
findExistingKeys(dir) ==
    IF ~dir.exists THEN {}
    ELSE {n \in KeyNames :
            /\ dir.files[n].pub # "absent"              \* a directory entry ending in .pub
            /\ dir.files[n].priv                        \* existsSync(privateKeyPath)
            /\ isValidSshPublicKeyFile(dir.files[n])
            /\ publicKeyNonEmpty(dir.files[n])}

hasHavenKey(dir) ==
    /\ dir.files[HAVEN_KEY_NAME].priv
    /\ dir.files[HAVEN_KEY_NAME].pub # "absent"

isKeyEncrypted(f) == f.passphrase

getAgentFingerprints(ag) == IF ag.ok THEN ag.fps ELSE {}

getKeyFingerprint(f) == f.fp

usableRule_IgnoresAgent(encrypted, inAgent) == ~encrypted

usableRule(encrypted, inAgent) == ~encrypted \/ inAgent

analyzeKey(dir, ag, n) ==
    LET encrypted == isKeyEncrypted(dir.files[n])
        fingerprint == getKeyFingerprint(dir.files[n])
        inAgent == IF fingerprint # NoFingerprint
                   THEN fingerprint \in getAgentFingerprints(ag)
                   ELSE FALSE
    IN [key |-> n, encrypted |-> encrypted, inAgent |-> inAgent,
        usable |-> usableRule(encrypted, inAgent)]

\* analyzeKeys that leaves out the keys whose fingerprint cannot be obtained.
analyzeKeys_SkipsFailed(dir, ag) ==
    {analyzeKey(dir, ag, n) :
        n \in {k \in findExistingKeys(dir) : getKeyFingerprint(dir.files[k]) # NoFingerprint}}

analyzeKeys(dir, ag) == {analyzeKey(dir, ag, n) : n \in findExistingKeys(dir)}

hasUsableKey(dir, ag) ==
    IF hasHavenKey(dir) THEN TRUE
    ELSE \E a \in analyzeKeys(dir, ag) : a.usable

\* generateHavenKey: mkdir the directory when missing, run ssh-keygen (exit code
\* `keygenExit`), throw when it is non-zero, else the pair is on disk.
generateHavenKey(dir, keygenExit) ==
    IF keygenExit # 0
    THEN [threw |-> TRUE, dir |-> [dir EXCEPT !.exists = TRUE]]
    ELSE [threw |-> FALSE,
          dir |-> [exists |-> TRUE,
                   files |-> [dir.files EXCEPT ![HAVEN_KEY_NAME] = GeneratedPair]]]

----------------------------------------------------------------------------
(* commands/connect.ts: prompts and ensureUsableKey                        *)

\* What an operator may type at a prompt, before trim().
ChoiceAnswers == {"", "1", " 1", "2", "x"}
YesNoAnswers == {"", "Y", "N", " n ", "no"}

\* String.prototype.trim and toLowerCase on the answers above.
Trim(s) ==
    CASE s = " 1" -> "1"
      [] s = " n " -> "n"
      [] s = " secret.env " -> "secret.env"
      [] s = "  # build" -> "# build"
      [] s = "  " -> ""
      [] OTHER -> s

ToLowerCase(s) ==
    CASE s = "Y" -> "y"
      [] s = "N" -> "n"
      [] s = "Watching" -> "watching"
      [] s = "WATCHING" -> "watching"
      [] s = "Scanning" -> "scanning"
      [] s = "Staging" -> "staging"
      [] s = "Reconciling" -> "reconciling"
      [] s = "Saving" -> "saving"
      [] s = "Halted" -> "halted"
      [] s = "Disconnected" -> "disconnected"
      [] s = "Connecting" -> "connecting"
      [] OTHER -> s

\* prompt(question, defaultValue) resolves to answer.trim() || defaultValue || "".
prompt(answer, defaultValue) ==
    IF Trim(answer) # "" THEN Trim(answer) ELSE defaultValue

ensureUsableKeyBranch_HavenFirst(dir, ag) ==
    IF hasHavenKey(dir) THEN "HAVEN_KEY_EXISTS"
    ELSE IF findExistingKeys(dir) = {} THEN "NO_KEYS"
    ELSE IF \E a \in analyzeKeys(dir, ag) : a.usable THEN "HAS_USABLE"
    ELSE "NO_USABLE"

\* Which branch of ensureUsableKey is taken for a directory and an agent. The
\* tests are made in the order the function makes them.
ensureUsableKeyBranch(dir, ag) ==
    IF findExistingKeys(dir) = {} THEN "NO_KEYS"
    ELSE IF hasHavenKey(dir) THEN "HAVEN_KEY_EXISTS"
    ELSE IF \E a \in analyzeKeys(dir, ag) : a.usable THEN "HAS_USABLE"
    ELSE "NO_USABLE"

\* promptForEncryptedKeyResolution: choice "1" generates the haven key and shows
\* it, anything else prints the ssh-agent instructions and exits 1.
promptForEncryptedKeyResolution(dir, answer, keygenExit) ==
    LET choice == prompt(answer, "1") IN
    IF choice = "1"
    THEN LET g == generateHavenKey(dir, keygenExit) IN
         [outcome |-> IF g.threw THEN "throw" ELSE "return", dir |-> g.dir,
          generated |-> ~g.threw, shown |-> ~g.threw, choice |-> Some(choice)]
    ELSE [outcome |-> "exit1", dir |-> dir,
          generated |-> FALSE, shown |-> FALSE, choice |-> Some(choice)]

\* ensureUsableKey on directory `dir` with agent `ag`; `answer` is what the
\* operator types if asked for a choice, `keygenExit` is ssh-keygen's exit code if
\* a key is generated.  outcome: "return", "throw" (generateHavenKey threw) or
\* "exit1" (process.exit(1)).  analysed: analyzeKeys was called.
ensureUsableKey(dir, ag, answer, keygenExit) ==
    LET branch == ensureUsableKeyBranch(dir, ag) IN
    CASE branch = "NO_KEYS" ->
            LET g == generateHavenKey(dir, keygenExit) IN
            [branch |-> branch, analysed |-> FALSE, analyses |-> {},
             outcome |-> IF g.threw THEN "throw" ELSE "return", dir |-> g.dir,
             generated |-> ~g.threw, shown |-> ~g.threw, choice |-> None]
      [] branch = "HAVEN_KEY_EXISTS" ->
            [branch |-> branch, analysed |-> FALSE, analyses |-> {},
             outcome |-> "return", dir |-> dir,
             generated |-> FALSE, shown |-> FALSE, choice |-> None]
      [] branch = "HAS_USABLE" ->
            [branch |-> branch, analysed |-> TRUE, analyses |-> analyzeKeys(dir, ag),
             outcome |-> "return", dir |-> dir,
             generated |-> FALSE, shown |-> FALSE, choice |-> None]
      [] OTHER ->
            LET p == promptForEncryptedKeyResolution(dir, answer, keygenExit) IN
            [branch |-> branch, analysed |-> TRUE, analyses |-> analyzeKeys(dir, ag),
             outcome |-> p.outcome, dir |-> p.dir,
             generated |-> p.generated, shown |-> p.shown, choice |-> p.choice]

----------------------------------------------------------------------------
(* utils/paths.ts, utils/guards.ts, config/store.ts, utils/duration.ts as    *)
(* connect uses them.                                                      *)

\* The file system: the directories that exist, what may be given as the path
\* argument, and where the CLI may be run from.
Dirs == {"/", "/w", "/w/p", "/w/p/src", "/w/dist"}
PathArgs == {"/w/p", "/w/p/", "/w/dist", "/w/missing"}
Cwds == {"/w/p/src", "/w"}
GitignoreDirs == {"/w/p"}

\* The canonical paths a registry entry can be stored under.
RegistryPaths == {"/w/p", "/w/dist"}

canonicalPath(p) == IF p = "/w/p/" THEN "/w/p" ELSE p

baseName(p) ==
    CASE p = "/w/p" -> "p"
      [] p = "/w/p/src" -> "src"
      [] p = "/w/dist" -> "dist"
      [] p = "/w/missing" -> "missing"
      [] p = "/w" -> "w"
      [] OTHER -> ""

parentDir(p) ==
    CASE p = "/w/p/src" -> "/w/p"
      [] p \in {"/w/p", "/w/dist", "/w/missing"} -> "/w"
      [] OTHER -> "/"

isDirectory_Always(p) == TRUE

isDirectory(p) == p \in Dirs

SUSPICIOUS_PATHS ==
    {"/", "/home/u", "/home/u/Documents", "/home/u/Downloads", "/home/u/Desktop",
     "/home/u/Library", "/etc", "/var", "/usr", "/bin", "/sbin", "/lib", "/opt",
     "/System", "/Applications", "/tmp"}

SUSPICIOUS_NAMES ==
    {"node_modules", ".git", "venv", ".venv", "vendor", "__pycache__", "dist", "build"}

isSuspiciousPath(p) == p \in SUSPICIOUS_PATHS \/ baseName(p) \in SUSPICIOUS_NAMES

hasGitignore(p) == p \in GitignoreDirs

\* Connection strings: user@host:port, a bare host, and two malformed ones.
Targets == {"u@h1:2222", "h2", "@:", ""}
SshInputs == {"u@h1:2222", "h2", ""}
RemotePathAnswers == {"", "/srv/app"}

parseSshString(str) ==
    CASE str = "u@h1:2222" -> Some([host |-> "h1", port |-> 2222, user |-> "u"])
      [] str = "h2" -> Some([host |-> "h2", port |-> 22, user |-> "abc"])
      [] OTHER -> None

generateSshAlias(host, port) == <<"haven", host, port>>

getConnection(reg, p) ==
    IF canonicalPath(p) \in DOMAIN reg THEN reg[canonicalPath(p)] ELSE None

findConnectionFrom_SelfOnly(reg, p) ==
    IF p \in DOMAIN reg /\ reg[p] # None
    THEN Some([localPath |-> p, config |-> reg[p][1]])
    ELSE None

RECURSIVE findConnectionFrom(_, _)
findConnectionFrom(reg, p) ==
    IF p \in DOMAIN reg /\ reg[p] # None
    THEN Some([localPath |-> p, config |-> reg[p][1]])
    ELSE IF p = "/" THEN None
    ELSE findConnectionFrom(reg, parentDir(p))

findConnection(reg, p) == findConnectionFrom(reg, canonicalPath(p))

saveConnection(reg, p, cfg) == [reg EXCEPT ![canonicalPath(p)] = Some(cfg)]

saveSession(ses, p, state) == [ses EXCEPT ![canonicalPath(p)] = Some(state)]

DurationTexts == {"30m", "1h"}

parseDuration(str) ==
    CASE str = "30m" -> Some(1800)
      [] str = "1h" -> Some(3600)
      [] OTHER -> None

----------------------------------------------------------------------------
(* ssh/config.ts                                                           *)

\* The entry `ssh-keygen -R` is asked to remove: host, or [host]:port.
hostEntry(host, port) ==
    [host |-> host, port |-> IF port = 22 THEN None ELSE Some(port)]

\* removeHostKey: nothing without a known_hosts file, else ssh-keygen -R.
removeHostKey(kh, host, port) ==
    IF kh = None THEN kh ELSE Some(kh[1] \ {hostEntry(host, port)})

getAllKeyPaths(dir) == findExistingKeys(dir)

\* The order in which the directory lists the key files.
ReaddirOrder == <<"haven_ed25519", "id_ed25519", "my_custom_key">>

\* A line of ~/.ssh/config: whether it starts with whitespace, its words, and
\* whether whitespace follows the last word.  No words: a blank line.
ConfigLine(indent, words) == [indent |-> indent, words |-> words, trail |-> FALSE]
BlankLine == ConfigLine(FALSE, <<>>)
isBlank(l) == l.words = <<>>

\* The text of a file: its lines, and whether the last line ends with "\n".
EmptyText == [lines |-> <<>>, eofNewline |-> FALSE]

\* generateHostConfig that names the first discovered key only.
generateHostConfig_FirstKeyOnly(dir, alias, host, port, user) ==
    LET keyPaths == SelectSeq(ReaddirOrder, LAMBDA n : n \in getAllKeyPaths(dir))
        identityLines == IF keyPaths = <<>> THEN <<>>
                         ELSE <<ConfigLine(TRUE, <<"IdentityFile", keyPaths[1]>>)>>
    IN <<ConfigLine(FALSE, <<"Host", alias>>),
         ConfigLine(TRUE, <<"HostName", host>>),
         ConfigLine(TRUE, <<"Port", ToString(port)>>),
         ConfigLine(TRUE, <<"User", user>>)>>
       \o identityLines
       \o <<ConfigLine(TRUE, <<"ForwardAgent", "no">>),
            ConfigLine(TRUE, <<"ForwardX11", "no">>),
            ConfigLine(TRUE, <<"StrictHostKeyChecking", "accept-new">>),
            ConfigLine(TRUE, <<"ServerAliveInterval", "5">>),
            ConfigLine(TRUE, <<"ServerAliveCountMax", "3">>)>>

\* generateHostConfig: the lines of the block, each ending with "\n".
generateHostConfig(dir, alias, host, port, user) ==
    LET keyPaths == SelectSeq(ReaddirOrder, LAMBDA n : n \in getAllKeyPaths(dir))
        identityLines == [k \in 1..Len(keyPaths) |->
                             ConfigLine(TRUE, <<"IdentityFile", keyPaths[k]>>)]
    IN <<ConfigLine(FALSE, <<"Host", alias>>),
         ConfigLine(TRUE, <<"HostName", host>>),
         ConfigLine(TRUE, <<"Port", ToString(port)>>),
         ConfigLine(TRUE, <<"User", user>>)>>
       \o identityLines
       \o <<ConfigLine(TRUE, <<"ForwardAgent", "no">>),
            ConfigLine(TRUE, <<"ForwardX11", "no">>),
            ConfigLine(TRUE, <<"StrictHostKeyChecking", "accept-new">>),
            ConfigLine(TRUE, <<"ServerAliveInterval", "5">>),
            ConfigLine(TRUE, <<"ServerAliveCountMax", "3">>)>>

\* "^Host <alias>\n" at line i: the line is Host <alias> and nothing else, and
\* a newline follows it.
matchesHostLine(text, i, alias) ==
    LET l == text.lines[i] IN
    /\ ~l.indent /\ ~l.trail
    /\ Len(l.words) = 2 /\ l.words[1] = "Host" /\ l.words[2] = alias
    /\ (i < Len(text.lines) \/ text.eofNewline)

\* "^Host ": the line begins with Host and a space.
beginsHostBlock(l) ==
    /\ ~l.indent
    /\ Len(l.words) >= 1 /\ l.words[1] = "Host"
    /\ (Len(l.words) >= 2 \/ l.trail)

continuesBlock_UntilBlankLine(l) == ~beginsHostBlock(l) /\ ~isBlank(l)

\* "(?!^Host ).*\n?": a line the match of hostPattern goes on through.
continuesBlock(l) == ~beginsHostBlock(l)

\* The indices of the lines that replace(hostPattern, "") leaves, from line i
\* on; inBlock: line i follows lines of a match.
RECURSIVE keptFrom(_, _, _, _)
keptFrom(text, i, inBlock, alias) ==
    IF i > Len(text.lines) THEN <<>>
    ELSE IF matchesHostLine(text, i, alias) THEN keptFrom(text, i + 1, TRUE, alias)
    ELSE IF inBlock /\ continuesBlock(text.lines[i]) THEN keptFrom(text, i + 1, TRUE, alias)
    ELSE <<i>> \o keptFrom(text, i + 1, FALSE, alias)

\* existingContent.replace(hostPattern, "")
replaceHostPattern(text, alias) ==
    LET kept == keptFrom(text, 1, FALSE, alias) IN
    [lines |-> [k \in 1..Len(kept) |-> text.lines[kept[k]]],
     eofNewline |-> IF kept # <<>> /\ kept[Len(kept)] = Len(text.lines)
                    THEN text.eofNewline
                    ELSE kept # <<>>]

\* String.prototype.trim on a text: blank lines at both ends go, so do the
\* whitespace before the first word and after the last one, and the final "\n".
trimText(text) ==
    LET nb == {i \in DOMAIN text.lines : ~isBlank(text.lines[i])} IN
    IF nb = {} THEN EmptyText
    ELSE LET a == CHOOSE i \in nb : \A j \in nb : i <= j
             b == CHOOSE i \in nb : \A j \in nb : i >= j
             n == b - a + 1
         IN [lines |-> [k \in 1..n |->
                          [indent |-> text.lines[a + k - 1].indent /\ k # 1,
                           words |-> text.lines[a + k - 1].words,
                           trail |-> text.lines[a + k - 1].trail /\ k # n]],
             eofNewline |-> FALSE]

writeHostConfig_AppendsOnly(file, dir, alias, host, port, user) ==
    LET existingContent == IF file # None THEN file[1] ELSE EmptyText
        trimmed == trimText(existingContent)
        joined == [lines |-> (IF trimmed.lines = <<>> THEN <<BlankLine, BlankLine>>
                              ELSE trimmed.lines \o <<BlankLine>>)
                             \o generateHostConfig(dir, alias, host, port, user),
                   eofNewline |-> TRUE]
    IN Some([lines |-> trimText(joined).lines, eofNewline |-> TRUE])

\* writeHostConfig on the file (none: it does not exist): the blocks of the
\* alias are cut out, the rest is trimmed, and the new block is appended after
\* an empty line.
writeHostConfig(file, dir, alias, host, port, user) ==
    LET existingContent == IF file # None THEN file[1] ELSE EmptyText
        updatedContent == replaceHostPattern(existingContent, alias)
        trimmed == trimText(updatedContent)
        joined == [lines |-> (IF trimmed.lines = <<>> THEN <<BlankLine, BlankLine>>
                              ELSE trimmed.lines \o <<BlankLine>>)
                             \o generateHostConfig(dir, alias, host, port, user),
                   eofNewline |-> TRUE]
    IN Some([lines |-> trimText(joined).lines, eofNewline |-> TRUE])

\* removeHostConfig: nothing without the file; else the blocks of the alias
\* are cut out and the trimmed rest is written, unless it is empty.
removeHostConfig(file, alias) ==
    IF file = None THEN file
    ELSE LET updatedContent == trimText(replaceHostPattern(file[1], alias)) IN
         IF updatedContent.lines # <<>>
         THEN Some([lines |-> updatedContent.lines, eofNewline |-> TRUE])
         ELSE file

\* What testConnection can return; the error is ssh's stderr.
HostKeyErrors ==
    {"@@@ WARNING: REMOTE HOST IDENTIFICATION HAS CHANGED! @@@ Host key verification failed."}
OtherErrors == {"Permission denied (publickey)."}

ProbeResults ==
    {[success |-> TRUE, error |-> ""]}
    \cup [success : {FALSE}, error : HostKeyErrors \cup OtherErrors]

includesHostKeyFailed_AnyError(err) == TRUE

\* error?.includes("Host key verification failed")
includesHostKeyFailed(err) == err \in HostKeyErrors

\* What `ssh <alias> printenv HAVEN_IDLE_TIMEOUT` answers: the variable is not
\* set, a duration, text that is no duration, and an empty value.
RemoteEnvAnswers ==
    {[exitCode |-> 1, stdout |-> ""], [exitCode |-> 0, stdout |-> "1h"],
     [exitCode |-> 0, stdout |-> "soon"], [exitCode |-> 0, stdout |-> "  "]}

\* getRemoteEnv, lines 97-117: stdout.trim() || null on exit code 0, else null.
getRemoteEnv(procExit, stdout) ==
    IF procExit = 0 /\ Trim(stdout) # "" THEN Some(Trim(stdout)) ELSE None

RemoteEnvValues == {getRemoteEnv(a.exitCode, a.stdout) : a \in RemoteEnvAnswers}

----------------------------------------------------------------------------
(* sync/mutagen.ts                                                         *)

\* str.charCodeAt(i), i = 0 .. str.length - 1, for the paths of the model.
charCodes(str) ==
    CASE str = "/" -> <<47>>
      [] str = "/w" -> <<47, 119>>
      [] str = "/w/p" -> <<47, 119, 47, 112>>
      [] str = "/w/p/" -> <<47, 119, 47, 112, 47>>
      [] str = "/w/dist" -> <<47, 119, 47, 100, 105, 115, 116>>
      [] str = "/w/p/src" -> <<47, 119, 47, 112, 47, 115, 114, 99>>
      [] str = "/w/missing" -> <<47, 119, 47, 109, 105, 115, 115, 105, 110, 103>>
      [] OTHER -> <<>>

\* A 32-bit integer as its two 16-bit halves.
Half == 256 * 256
Int32(hi, lo) == [hi |-> hi % Half, lo |-> lo % Half]

\* hash << 5
shiftLeft5(h) == Int32(h.hi * 32 + (h.lo * 32) \div Half, h.lo * 32)

\* a - b and a + n (n a char code), kept to 32 bits as `hash & hash` does.
minus32(a, b) ==
    LET borrow == IF a.lo < b.lo THEN 1 ELSE 0 IN
    Int32(a.hi - b.hi - borrow + Half, a.lo - b.lo + Half)

plus32(a, n) == Int32(a.hi + (a.lo + n) \div Half, a.lo + n)

\* Math.abs of the signed value: the magnitude, as an unsigned 32-bit number.
abs32(h) == IF h.hi >= Half \div 2 THEN minus32(Int32(0, 0), h) ELSE h

\* Number.prototype.toString(36) of a non-negative number.
Digits36 ==
    <<"0", "1", "2", "3", "4", "5", "6", "7", "8", "9", "a", "b", "c", "d", "e", "f", "g",
      "h", "i", "j", "k", "l", "m", "n", "o", "p", "q", "r", "s", "t", "u", "v", "w", "x",
      "y", "z">>

RECURSIVE toString36(_)
toString36(n) ==
    LET t == (n.hi % 36) * Half + n.lo
        q == [hi |-> n.hi \div 36, lo |-> t \div 36]
        d == Digits36[(t % 36) + 1]
    IN IF q = Int32(0, 0) THEN d ELSE toString36(q) \o d

\* simpleHash: hash = ((hash << 5) - hash) + char, hash = hash & hash over the
\* characters; Math.abs(hash).toString(36).
RECURSIVE hashFrom(_, _, _)
hashFrom(hash, codes, i) ==
    IF i > Len(codes) THEN hash
    ELSE hashFrom(plus32(minus32(shiftLeft5(hash), hash), codes[i]), codes, i + 1)

simpleHash(str) == toString36(abs32(hashFrom(Int32(0, 0), charCodes(str), 1)))

getSyncSessionName_RawPath(p) == "haven-" \o simpleHash(p)

\* getSyncSessionName over the paths of the model, computed once.
sessionNames == [p \in Dirs \cup PathArgs |-> "haven-" \o simpleHash(canonicalPath(p))]

getSyncSessionName(p) == sessionNames[p]

\* No session is listed by the engine.
NoSyncSessions == [n \in {getSyncSessionName(p) : p \in RegistryPaths} |-> <<>>]

\* What the engine prints on stderr when a command fails: the named session
\* is not there, or the command could not be carried out.
DoesNotExistErrors == {"Error: session does not exist"}
OtherEngineErrors == {"Error: unable to connect to daemon", "Error: unable to connect to beta"}

\* What `sync create` can return.
CreateResults ==
    {[exitCode |-> 0, stderr |-> ""]} \cup [exitCode : {1}, stderr : OtherEngineErrors]

\* What `sync terminate <name>` can return for the sessions the engine holds.
TerminateResults(eng, name) ==
    IF eng[name] # <<>>
    THEN {[exitCode |-> 0, stderr |-> ""]} \cup [exitCode : {1}, stderr : OtherEngineErrors]
    ELSE [exitCode : {1}, stderr : DoesNotExistErrors \cup OtherEngineErrors]

\* stderr.includes("does not exist")
includesDoesNotExist(text) == text \in DoesNotExistErrors

\* The engine pauses or resumes the sessions of the name.
setPaused(eng, name, v) ==
    [eng EXCEPT ![name] = [k \in DOMAIN eng[name] |-> [eng[name][k] EXCEPT !.paused = v]]]

\* getSyncSession: the session name is in the engine's list (false when the
\* list command fails).
getSyncSession(eng, p, listExit) ==
    IF listExit # 0 THEN FALSE ELSE eng[getSyncSessionName(p)] # <<>>

\* A command of the engine that exited non-zero.
Failed(cmd, code) == IF code # 0 THEN <<[cmd |-> cmd, exitCode |-> code]>> ELSE <<>>

\* pauseSync, resumeSync and flushSync: runMutagen throws when the engine
\* cannot be installed; the result of the command is dropped.  failed: the
\* commands of the call that exited non-zero; logged: the log records written.
pauseSync(eng, p, installOk, cmdExit) ==
    IF ~installOk THEN [threw |-> TRUE, engine |-> eng, failed |-> <<>>, logged |-> <<>>]
    ELSE [threw |-> FALSE,
          engine |-> IF cmdExit = 0 THEN setPaused(eng, getSyncSessionName(p), TRUE) ELSE eng,
          failed |-> Failed("pause", cmdExit),
          logged |-> <<>>]

resumeSync_ThrowsOnFailure(eng, p, installOk, cmdExit) ==
    IF ~installOk \/ cmdExit # 0
    THEN [threw |-> TRUE, engine |-> eng,
          failed |-> IF installOk THEN Failed("resume", cmdExit) ELSE <<>>, logged |-> <<>>]
    ELSE [threw |-> FALSE, engine |-> setPaused(eng, getSyncSessionName(p), FALSE),
          failed |-> <<>>, logged |-> <<>>]

resumeSync(eng, p, installOk, cmdExit) ==
    IF ~installOk THEN [threw |-> TRUE, engine |-> eng, failed |-> <<>>, logged |-> <<>>]
    ELSE [threw |-> FALSE,
          engine |-> IF cmdExit = 0 THEN setPaused(eng, getSyncSessionName(p), FALSE) ELSE eng,
          failed |-> Failed("resume", cmdExit),
          logged |-> <<>>]

flushSync(eng, p, installOk, cmdExit) ==
    IF ~installOk THEN [threw |-> TRUE, engine |-> eng, failed |-> <<>>, logged |-> <<>>]
    ELSE [threw |-> FALSE, engine |-> eng,
          failed |-> Failed("flush", cmdExit),
          logged |-> <<>>]

stopSync_NoTolerance(eng, p, installOk, term) ==
    IF ~installOk THEN [threw |-> TRUE, engine |-> eng, failed |-> <<>>, logged |-> <<>>]
    ELSE IF term.exitCode # 0
    THEN [threw |-> TRUE, engine |-> eng, failed |-> Failed("terminate", term.exitCode), logged |-> <<>>]
    ELSE [threw |-> FALSE, engine |-> [eng EXCEPT ![getSyncSessionName(p)] = <<>>],
          failed |-> <<>>, logged |-> <<>>]

\* stopSync: `sync terminate`; throws when it exits non-zero unless stderr
\* says the session does not exist.
stopSync(eng, p, installOk, term) ==
    IF ~installOk THEN [threw |-> TRUE, engine |-> eng, failed |-> <<>>, logged |-> <<>>]
    ELSE IF term.exitCode # 0 /\ ~includesDoesNotExist(term.stderr)
    THEN [threw |-> TRUE, engine |-> eng, failed |-> Failed("terminate", term.exitCode), logged |-> <<>>]
    ELSE IF term.exitCode # 0
    THEN [threw |-> FALSE, engine |-> eng, failed |-> Failed("terminate", term.exitCode), logged |-> <<>>]
    ELSE [threw |-> FALSE, engine |-> [eng EXCEPT ![getSyncSessionName(p)] = <<>>],
          failed |-> <<>>, logged |-> <<>>]

startSync_GenericError(eng, p, sshAlias, cfg, installOk, listExit, resumeExit, create) ==
    IF ~installOk
    THEN [threw |-> TRUE, how |-> "install", engine |-> eng, message |-> <<"install">>,
          progress |-> <<>>, failed |-> <<>>, logged |-> <<>>]
    ELSE IF getSyncSession(eng, p, listExit)
    THEN LET r == resumeSync(eng, p, installOk, resumeExit) IN
         [threw |-> r.threw, how |-> "resume", engine |-> r.engine, message |-> <<>>,
          progress |-> <<"Resuming existing sync session...">>,
          failed |-> r.failed, logged |-> r.logged]
    ELSE IF create.exitCode # 0
    THEN [threw |-> TRUE, how |-> "createFailed", engine |-> eng,
          message |-> <<"Failed to start sync">>,
          progress |-> <<"Starting sync...">>,
          failed |-> Failed("list", listExit) \o Failed("create", create.exitCode),
          logged |-> <<>>]
    ELSE [threw |-> FALSE, how |-> "create",
          engine |-> [eng EXCEPT ![getSyncSessionName(p)] =
                         Append(@, [alpha |-> canonicalPath(p),
                                    beta |-> <<sshAlias, cfg.remotePath>>,
                                    paused |-> FALSE])],
          message |-> <<>>,
          progress |-> <<"Starting sync...">>,
          failed |-> Failed("list", listExit),
          logged |-> <<>>]

\* The answers of the engine to the commands of one start: the exit code of
\* list, and that of resume or the result of create, whichever start runs.
EngineAnswers(eng, p) ==
    {a \in [listExit : {0, 1}, resumeExit : {0, 1}, create : CreateResults] :
        IF getSyncSession(eng, p, a.listExit)
        THEN a.create.exitCode = 0
        ELSE a.resumeExit = 0}

\* startSync: throws when the engine cannot be installed; resumes when the
\* session is listed; else creates it and throws, with the engine's stderr in
\* the message, when create exits non-zero.  progress: what onProgress is given.
startSync(eng, p, sshAlias, cfg, installOk, listExit, resumeExit, create) ==
    IF ~installOk
    THEN [threw |-> TRUE, how |-> "install", engine |-> eng, message |-> <<"install">>,
          progress |-> <<>>, failed |-> <<>>, logged |-> <<>>]
    ELSE IF getSyncSession(eng, p, listExit)
    THEN LET r == resumeSync(eng, p, installOk, resumeExit) IN
         [threw |-> r.threw, how |-> "resume", engine |-> r.engine, message |-> <<>>,
          progress |-> <<"Resuming existing sync session...">>,
          failed |-> r.failed, logged |-> r.logged]
    ELSE IF create.exitCode # 0
    THEN [threw |-> TRUE, how |-> "createFailed", engine |-> eng,
          message |-> <<"Failed to start sync: ", create.stderr>>,
          progress |-> <<"Starting sync...">>,
          failed |-> Failed("list", listExit) \o Failed("create", create.exitCode),
          logged |-> <<>>]
    ELSE [threw |-> FALSE, how |-> "create",
          engine |-> [eng EXCEPT ![getSyncSessionName(p)] =
                         Append(@, [alpha |-> canonicalPath(p),
                                    beta |-> <<sshAlias, cfg.remotePath>>,
                                    paused |-> FALSE])],
          message |-> <<>>,
          progress |-> <<"Starting sync...">>,
          failed |-> Failed("list", listExit),
          logged |-> <<>>]

\* A status description of the engine: none when the field is missing, else
\* its words in order ("Watching for changes" is <<"Watching", "for changes">>).
StatusWords ==
    {"Watching", "WATCHING", "rewatching", "Scanning", "Staging", "Reconciling", "Saving",
     "Halted", "Disconnected", "Connecting", "for changes"}

StatusDescriptions ==
    {None, Some(<<>>)}
    \cup {Some(<<w>>) : w \in StatusWords}
    \cup {Some(<<v, w>>) : v, w \in {"Scanning", "WATCHING", "Saving", "Halted", "for changes"}}
    \cup {Some(<<"Disconnected", "Halted">>), Some(<<"Staging", "Reconciling">>),
          Some(<<"Reconciling", "Staging">>)}

\* The lower-case words that hold the keyword as a substring.
WordsHolding(keyword) == IF keyword = "watching" THEN {"watching", "rewatching"} ELSE {keyword}

\* status.toLowerCase().includes(keyword)
lowerIncludes(status, keyword) ==
    \E i \in DOMAIN status : ToLowerCase(status[i]) \in WordsHolding(keyword)

parseSessionStatus_HaltedFirst(status) ==
    IF status = None \/ status[1] = <<>> THEN "unknown"
    ELSE IF lowerIncludes(status[1], "halted") THEN "halted"
    ELSE IF lowerIncludes(status[1], "watching") THEN "watching"
    ELSE IF lowerIncludes(status[1], "scanning") THEN "scanning"
    ELSE IF lowerIncludes(status[1], "staging") THEN "staging"
    ELSE IF lowerIncludes(status[1], "reconciling") THEN "reconciling"
    ELSE IF lowerIncludes(status[1], "saving") THEN "saving"
    ELSE IF lowerIncludes(status[1], "disconnected") THEN "disconnected"
    ELSE "unknown"

\* parseSessionStatus: `!status` holds for undefined and for "".
parseSessionStatus(status) ==
    IF status = None \/ status[1] = <<>> THEN "unknown"
    ELSE IF lowerIncludes(status[1], "watching") THEN "watching"
    ELSE IF lowerIncludes(status[1], "scanning") THEN "scanning"
    ELSE IF lowerIncludes(status[1], "staging") THEN "staging"
    ELSE IF lowerIncludes(status[1], "reconciling") THEN "reconciling"
    ELSE IF lowerIncludes(status[1], "saving") THEN "saving"
    ELSE IF lowerIncludes(status[1], "halted") THEN "halted"
    ELSE IF lowerIncludes(status[1], "disconnected") THEN "disconnected"
    ELSE "unknown"

\* What the engine prints for a listed session besides its name: the status
\* description, the number of conflicts, and the scan problems of both sides.
SessionListings ==
    {[description |-> Some(<<"Watching", "for changes">>), conflictCount |-> 0,
      alphaProblems |-> <<>>, betaProblems |-> <<>>],
     [description |-> Some(<<"Halted">>), conflictCount |-> 2,
      alphaProblems |-> <<"permission denied">>, betaProblems |-> <<"no space left">>],
     [description |-> Some(<<"Connecting">>), conflictCount |-> 0,
      alphaProblems |-> <<>>, betaProblems |-> <<>>]}

\* What `sync list` answers: it fails with stderr, or lists the sessions.
ListResults ==
    {[exitCode |-> 0, stderr |-> ""]} \cup [exitCode : {1}, stderr : OtherEngineErrors]

Disconnected(errors) == [status |-> "disconnected", conflicts |-> <<>>, errors |-> errors]

\* getSyncStatus that reports a session missing from the list as unknown.
getSyncStatus_UnknownWhenAbsent(eng, p, installOk, list, listing) ==
    IF ~installOk THEN [threw |-> TRUE, result |-> None]
    ELSE IF list.exitCode # 0
    THEN [threw |-> FALSE, result |-> Some(Disconnected(<<list.stderr>>))]
    ELSE IF eng[getSyncSessionName(p)] = <<>>
    THEN [threw |-> FALSE,
          result |-> Some([status |-> "unknown", conflicts |-> <<>>, errors |-> <<>>])]
    ELSE [threw |-> FALSE,
          result |-> Some([status |-> parseSessionStatus(listing.description),
                           conflicts |-> IF listing.conflictCount > 0
                                         THEN <<<<listing.conflictCount, "conflict(s) detected">>>>
                                         ELSE <<>>,
                           errors |-> listing.alphaProblems \o listing.betaProblems])]

\* getSyncStatus, lines 135-169.  runMutagen throws when the engine cannot be
\* installed; listing: the line of the first listed session with the name.
getSyncStatus(eng, p, installOk, list, listing) ==
    IF ~installOk THEN [threw |-> TRUE, result |-> None]
    ELSE IF list.exitCode # 0
    THEN [threw |-> FALSE, result |-> Some(Disconnected(<<list.stderr>>))]
    ELSE IF eng[getSyncSessionName(p)] = <<>>
    THEN [threw |-> FALSE, result |-> Some(Disconnected(<<>>))]
    ELSE [threw |-> FALSE,
          result |-> Some([status |-> parseSessionStatus(listing.description),
                           conflicts |-> IF listing.conflictCount > 0
                                         THEN <<<<listing.conflictCount, "conflict(s) detected">>>>
                                         ELSE <<>>,
                           errors |-> listing.alphaProblems \o listing.betaProblems])]

----------------------------------------------------------------------------
(* sync/ignore.ts                                                          *)

DEFAULT_IGNORE_PATTERNS ==
    <<".git/", "node_modules/", ".pnpm-store/", "__pycache__/", "*.pyc", ".pytest_cache/",
      ".mypy_cache/", "dist/", "build/", ".next/", ".nuxt/", ".output/", "target/",
      ".gradle/", ".idea/", "*.log", "*.tmp", "*.swp", "*.swo", ".DS_Store", ".haven/">>

\* line.startsWith("#")
startsWithHash(line) == line \in {"# build", "#"}

\* parseIgnoreFile on the lines of content.split("\n")
parseIgnoreFile(lines) ==
    SelectSeq([i \in DOMAIN lines |-> Trim(lines[i])],
              LAMBDA line : line # "" /\ ~startsWithHash(line))

\* The .gitignore of a project root: only /w/p can have one.
gitignoreOf(file, projectRoot) == IF projectRoot = "/w/p" THEN file ELSE None

\* loadGitignorePatterns
loadGitignorePatterns(file, projectRoot) ==
    IF gitignoreOf(file, projectRoot) = None THEN <<>>
    ELSE parseIgnoreFile(gitignoreOf(file, projectRoot)[1])

\* Array.from(new Set(items)): the first occurrence of every item, in order.
RECURSIVE arrayFromSet(_)
arrayFromSet(items) ==
    IF items = <<>> THEN <<>>
    ELSE LET front == arrayFromSet(SubSeq(items, 1, Len(items) - 1))
             last == items[Len(items)]
         IN IF \E i \in DOMAIN front : front[i] = last THEN front ELSE Append(front, last)

getAllIgnorePatterns_NoSet(file, projectRoot, withGitignore) ==
    DEFAULT_IGNORE_PATTERNS
        \o (IF withGitignore THEN loadGitignorePatterns(file, projectRoot) ELSE <<>>)

\* getAllIgnorePatterns(projectRoot, useGitignore)
getAllIgnorePatterns(file, projectRoot, withGitignore) ==
    LET defaultPatterns == DEFAULT_IGNORE_PATTERNS
        gitignorePatterns == IF withGitignore THEN loadGitignorePatterns(file, projectRoot)
                             ELSE <<>>
    IN arrayFromSet(defaultPatterns \o gitignorePatterns)

----------------------------------------------------------------------------
(* commands/connect.ts: connect                                            *)

\* How many executions of connect a behaviour holds.
MaxRuns == 1

\* The options of connect; --idle-timeout and --use-gitignore are varied one
\* at a time.
OptionSets ==
    {o \in [target : {None} \cup {Some(t) : t \in Targets},
            resetHostKey : BOOLEAN,
            idleTimeout : {None, Some("30m")},
            useGitignore : BOOLEAN] : o.idleTimeout = None \/ ~o.useGitignore}

NoOptions ==
    [target |-> None, resetHostKey |-> FALSE, idleTimeout |-> None, useGitignore |-> FALSE]

parseConnectionFromTarget_FixedRemotePath(target, lp) ==
    LET parsed == parseSshString(target) IN
    IF parsed = None THEN None
    ELSE Some([host |-> parsed[1].host, port |-> parsed[1].port, user |-> parsed[1].user,
               remotePath |-> <<"/config/workspace", "workspace">>,
               sshAlias |-> Some(generateSshAlias(parsed[1].host, parsed[1].port)),
               lastConnected |-> None])

parseConnectionFromTarget(target, lp) ==
    LET parsed == parseSshString(target) IN
    IF parsed = None THEN None
    ELSE Some([host |-> parsed[1].host, port |-> parsed[1].port, user |-> parsed[1].user,
               remotePath |-> <<"/config/workspace", baseName(lp)>>,
               sshAlias |-> Some(generateSshAlias(parsed[1].host, parsed[1].port)),
               lastConnected |-> None])

\* promptForConnection: none when it throws on an unparsable answer.
promptForConnection(lp, sshAnswer, remotePathAnswer) ==
    LET parsed == parseSshString(prompt(sshAnswer, "")) IN
    IF parsed = None THEN None
    ELSE Some([host |-> parsed[1].host, port |-> parsed[1].port, user |-> parsed[1].user,
               remotePath |-> IF Trim(remotePathAnswer) # ""
                              THEN <<Trim(remotePathAnswer)>>
                              ELSE <<"/config/workspace", baseName(lp)>>,
               sshAlias |-> Some(generateSshAlias(parsed[1].host, parsed[1].port)),
               lastConnected |-> None])

resolveConfig_RegistryFirst(cfg, target, lp, sshAnswer, remotePathAnswer) ==
    IF cfg # None
    THEN [outcome |-> "ok", config |-> cfg, asked |-> <<>>]
    ELSE IF target # None /\ target[1] # ""
    THEN LET parsed == parseConnectionFromTarget(target[1], lp) IN
         IF parsed = None
         THEN [outcome |-> "exit1", config |-> cfg, asked |-> <<>>]
         ELSE [outcome |-> "ok", config |-> parsed, asked |-> <<>>]
    ELSE LET entered == promptForConnection(lp, sshAnswer, remotePathAnswer) IN
         IF entered = None
         THEN [outcome |-> "throw", config |-> cfg, asked |-> <<"connection">>]
         ELSE [outcome |-> "ok", config |-> entered,
               asked |-> <<"connection", "remotePath">>]

\* Lines 265-276: the target argument when it is a non-empty string, else the
\* registry entry found at the start, else the prompt.  asked: the questions
\* put to the operator.
resolveConfig(cfg, target, lp, sshAnswer, remotePathAnswer) ==
    IF target # None /\ target[1] # ""
    THEN LET parsed == parseConnectionFromTarget(target[1], lp) IN
         IF parsed = None
         THEN [outcome |-> "exit1", config |-> cfg, asked |-> <<>>]
         ELSE [outcome |-> "ok", config |-> parsed, asked |-> <<>>]
    ELSE IF cfg # None
    THEN [outcome |-> "ok", config |-> cfg, asked |-> <<>>]
    ELSE LET entered == promptForConnection(lp, sshAnswer, remotePathAnswer) IN
         IF entered = None
         THEN [outcome |-> "throw", config |-> cfg, asked |-> <<"connection">>]
         ELSE [outcome |-> "ok", config |-> entered,
               asked |-> <<"connection", "remotePath">>]

\* No execution of connect runs.
ExecIdle ==
    /\ pc = "idle"
    /\ run = 0
    /\ options = NoOptions
    /\ localPath = ""
    /\ config = None
    /\ found = None
    /\ idleTimeout = None
    /\ useGitignore = FALSE
    /\ exitCode = None
    /\ exitAt = ""
    /\ probes = <<>>
    /\ purges = <<>>
    /\ syncLog = <<>>
    /\ prompts = <<>>
    /\ reconnectAnswer = None
    /\ events = <<>>
    /\ before = [registry |-> registry, sessions |-> sessions, engine |-> engine]

\* A machine on which connect never ran.
Fresh ==
    /\ registry = [p \in RegistryPaths |-> None]
    /\ sessions = [p \in RegistryPaths |-> None]
    /\ sshConfig = None
    /\ knownHosts = Some({hostEntry("h1", 2222), hostEntry("h2", 22)})
    /\ engine = NoSyncSessions

\* A machine on which `connect /w/p u@h1:2222` succeeded before: what the
\* stages of that execution wrote.
ConnectedBefore ==
    LET lp == "/w/p"
        c == parseConnectionFromTarget("u@h1:2222", lp)[1]
    IN
    /\ registry = saveConnection([p \in RegistryPaths |-> None], lp,
                                 [c EXCEPT !.lastConnected = Some("now")])
    /\ sessions = saveSession([p \in RegistryPaths |-> None], lp,
                              [connected |-> TRUE, startTime |-> "now", idleTimeout |-> None])
    /\ sshConfig = writeHostConfig(None, sshDir, c.sshAlias[1], c.host, c.port, c.user)
    /\ knownHosts = Some({hostEntry("h1", 2222), hostEntry("h2", 22)})
    /\ engine = startSync(NoSyncSessions, lp, c.sshAlias[1], c, TRUE, 0, 0,
                         [exitCode |-> 0, stderr |-> ""]).engine

\* No pure function has been called and main has not run.
NoCli == [handler |-> "none"]

\* execSafe has not been called.
NoChild == [phase |-> "none"]

\* No process is inside writeHostConfig.
NoWriters == <<>>

ProcIdle == child = NoChild /\ writers = NoWriters

LibIdle ==
    /\ ProcIdle
    /\ gitignore = None
    /\ fnCalls = <<>>
    /\ cli = NoCli

\* Neither module has been called on its own.
CallIdle ==
    /\ LibIdle
    /\ cfgStart = None
    /\ cfgPrev = None
    /\ cfgOps = <<>>
    /\ syncOps = <<>>
    /\ syncMsgs = <<>>

ConnectIdle == Fresh /\ ExecIdle

\* process.exit(code)
Exit(code) ==
    /\ pc' = "exited"
    /\ exitCode' = Some(code)
    /\ exitAt' = pc

RetryProbe_IgnoresResult ==
    /\ pc = "retry"
    /\ \E retryResult \in ProbeResults :
          /\ probes' = Append(probes, retryResult)
          /\ events' = Append(events, [kind |-> "testConnection", detail |-> config[1].sshAlias[1]])
          /\ pc' = "idleTimeout" /\ UNCHANGED <<exitCode, exitAt>>
    /\ UNCHANGED <<callVars, keyVars, worldVars, purges, syncLog, prompts, reconnectAnswer, before,
                   run, options, localPath, config, found, idleTimeout, useGitignore>>

RetryProbe_RetriesAgain ==
    /\ pc = "retry"
    /\ \E retryResult \in ProbeResults :
          /\ probes' = Append(probes, retryResult)
          /\ events' = Append(events, [kind |-> "testConnection", detail |-> config[1].sshAlias[1]])
          /\ IF retryResult.success
             THEN pc' = "idleTimeout" /\ UNCHANGED <<exitCode, exitAt>>
             ELSE IF includesHostKeyFailed(retryResult.error) /\ Len(probes) < 3
             THEN pc' = "confirmReconnect" /\ UNCHANGED <<exitCode, exitAt>>
             ELSE Exit(1)
    /\ UNCHANGED <<callVars, keyVars, worldVars, purges, syncLog, prompts, reconnectAnswer, before,
                   run, options, localPath, config, found, idleTimeout, useGitignore>>

AnswerReconnect_SkipsPurge ==
    /\ pc = "confirmReconnect"
    /\ \E answer \in YesNoAnswers :
          /\ reconnectAnswer' = Some(prompt(answer, "Y"))
          /\ IF ToLowerCase(prompt(answer, "Y")) = "n"
             THEN Exit(1)
             ELSE pc' = "retry" /\ UNCHANGED <<exitCode, exitAt>>
    /\ UNCHANGED <<callVars, keyVars, worldVars, probes, purges, syncLog, prompts,
                   before, events, run, options, localPath, config, found, idleTimeout, useGitignore>>

StartSync_SavesBeforeSync ==
    /\ pc = "sync"
    /\ \E installOk \in BOOLEAN :
       \E a \in IF installOk THEN EngineAnswers(engine, localPath)
                ELSE {[listExit |-> 0, resumeExit |-> 0,
                       create |-> [exitCode |-> 0, stderr |-> ""]]} :
          LET listExit == a.listExit
              resumeExit == a.resumeExit
              create == a.create
              c == config[1]
              r == startSync(engine, localPath, c.sshAlias[1], c, installOk, listExit,
                             resumeExit, create)
              saved == [c EXCEPT !.lastConnected = Some("now")]
          IN
          /\ syncLog' = Append(syncLog, r.how)
          /\ events' = events
                \o (IF r.how \in {"create", "createFailed"}
                    THEN <<[kind |-> "createResult", detail |-> create]>> ELSE <<>>)
                \o (IF r.threw
                    THEN <<[kind |-> "syncError", detail |-> r.message]>> ELSE <<>>)
          /\ config' = Some(saved)
          /\ registry' = saveConnection(registry, localPath, saved)
          /\ sessions' = saveSession(sessions, localPath,
                             [connected |-> TRUE, startTime |-> "now",
                              idleTimeout |-> idleTimeout])
          /\ IF r.threw
             THEN Exit(1) /\ UNCHANGED engine
             ELSE /\ engine' = r.engine
                  /\ pc' = "connected"
                  /\ UNCHANGED <<exitCode, exitAt>>
    /\ UNCHANGED <<callVars, keyVars, sshConfig, knownHosts, probes, purges, prompts,
                   reconnectAnswer, before,
                   run, options, localPath, found, idleTimeout, useGitignore>>

\* Lines 224-259: a new execution; the path argument is checked and the
\* registry is looked up.
\* connect(pathArg, options) run from the directory cwd, lines 224-259: the
\* path and the registry entry the execution works on.
ConnectBegin(pathArg, opts, cwd) ==
    /\ pc \in {"idle", "exited", "connected"}
    /\ run < MaxRuns
    /\ run' = run + 1
    /\ options' = opts
    /\ idleTimeout' = None
    /\ useGitignore' = FALSE
    /\ probes' = <<>> /\ purges' = <<>> /\ syncLog' = <<>>
    /\ reconnectAnswer' = None
    /\ events' = <<>>
    /\ before' = [registry |-> registry, sessions |-> sessions, engine |-> engine]
    /\ IF pathArg # None
       THEN LET lp == canonicalPath(pathArg[1]) IN
            /\ localPath' = lp
            /\ IF ~isDirectory(lp)
               THEN /\ Exit(1)
                    /\ config' = None /\ found' = None /\ prompts' = <<>>
               ELSE IF isSuspiciousPath(lp)
               THEN /\ pc' = "confirmBroad" /\ exitCode' = None /\ exitAt' = ""
                    /\ config' = None /\ found' = None /\ prompts' = <<"broad">>
               ELSE /\ pc' = "ensureKey" /\ exitCode' = None /\ exitAt' = ""
                    /\ config' = getConnection(registry, lp)
                    /\ found' = getConnection(registry, lp)
                    /\ prompts' = <<>>
       ELSE
            LET f == findConnection(registry, cwd) IN
            /\ prompts' = <<>>
            /\ IF f # None
               THEN /\ localPath' = f[1].localPath
                    /\ config' = Some(f[1].config) /\ found' = Some(f[1].config)
                    /\ pc' = "ensureKey" /\ exitCode' = None /\ exitAt' = ""
               ELSE /\ localPath' = "" /\ config' = None /\ found' = None
                    /\ Exit(1)
    /\ UNCHANGED <<keyVars, worldVars>>

ConnectStart ==
    /\ pc \in {"idle", "exited", "connected"}
    /\ run < MaxRuns
    /\ \E pathArg \in {None} \cup {Some(a) : a \in PathArgs}, opts \in OptionSets :
       \E cwd \in IF pathArg = None THEN Cwds ELSE {"/w"} :
          ConnectBegin(pathArg, opts, cwd)
    /\ UNCHANGED callVars

\* The broad-path prompt with the default answer "Y": an empty answer goes on.
AnswerBroadPath_DefaultYes ==
    /\ pc = "confirmBroad"
    /\ \E answer \in YesNoAnswers :
          /\ events' = Append(events, [kind |-> "answer", detail |-> answer])
          /\ IF ToLowerCase(prompt(answer, "Y")) # "y"
             THEN /\ Exit(0)
                  /\ UNCHANGED <<config, found>>
             ELSE /\ pc' = "ensureKey"
                  /\ config' = getConnection(registry, localPath)
                  /\ found' = getConnection(registry, localPath)
                  /\ UNCHANGED <<exitCode, exitAt>>
    /\ UNCHANGED <<callVars, keyVars, worldVars, probes, purges, syncLog, prompts,
                   reconnectAnswer, before, run, options, localPath, idleTimeout,
                   useGitignore>>

\* Lines 240-246: the answer to "Are you sure you want to sync this path? [y/N]".
AnswerBroadPath ==
    /\ pc = "confirmBroad"
    /\ \E answer \in YesNoAnswers :
          /\ events' = Append(events, [kind |-> "answer", detail |-> answer])
          /\ IF ToLowerCase(prompt(answer, "N")) # "y"
             THEN /\ Exit(0)
                  /\ UNCHANGED <<config, found>>
             ELSE /\ pc' = "ensureKey"
                  /\ config' = getConnection(registry, localPath)
                  /\ found' = getConnection(registry, localPath)
                  /\ UNCHANGED <<exitCode, exitAt>>
    /\ UNCHANGED <<callVars, keyVars, worldVars, probes, purges, syncLog, prompts,
                   reconnectAnswer, before, run, options, localPath, idleTimeout,
                   useGitignore>>

EnsureKey_SwallowsThrow ==
    /\ pc = "ensureKey"
    /\ \E answer \in ChoiceAnswers, keygenExit \in {0, 1} :
          LET r == ensureUsableKey(sshDir, agent, answer, keygenExit) IN
          /\ sshDir' = r.dir
          /\ prompts' = prompts \o (IF r.choice # None THEN <<"choice">> ELSE <<>>)
                                \o (IF r.shown THEN <<"pressEnter">> ELSE <<>>)
          /\ events' = IF r.outcome = "throw"
                       THEN Append(events, [kind |-> "keygenFailed", detail |-> <<>>])
                       ELSE events
          /\ IF r.outcome \in {"return", "throw"}
             THEN pc' = "resolve" /\ UNCHANGED <<exitCode, exitAt>>
             ELSE Exit(1)
    /\ UNCHANGED <<callVars, agent, kres, worldVars, probes, purges, syncLog, reconnectAnswer, before,
                   run, options, localPath, config, found, idleTimeout, useGitignore>>

\* Line 263: ensureUsableKey; a throw of generateHavenKey leaves connect and the
\* command's action handler exits 1.
EnsureKey ==
    /\ pc = "ensureKey"
    /\ \E answer \in ChoiceAnswers, keygenExit \in {0, 1} :
          LET r == ensureUsableKey(sshDir, agent, answer, keygenExit) IN
          /\ sshDir' = r.dir
          /\ prompts' = prompts \o (IF r.choice # None THEN <<"choice">> ELSE <<>>)
                                \o (IF r.shown THEN <<"pressEnter">> ELSE <<>>)
          /\ events' = IF r.outcome = "throw"
                       THEN Append(events, [kind |-> "keygenFailed", detail |-> <<>>])
                       ELSE events
          /\ IF r.outcome = "return"
             THEN pc' = "resolve" /\ UNCHANGED <<exitCode, exitAt>>
             ELSE Exit(1)
    /\ UNCHANGED <<callVars, agent, kres, worldVars, probes, purges, syncLog, reconnectAnswer, before,
                   run, options, localPath, config, found, idleTimeout, useGitignore>>

\* Lines 265-293: resolve the endpoint, purge the host key under
\* --reset-host-key, write the Host block, and launch the probe.
ResolveAndWrite ==
    /\ pc = "resolve"
    /\ \E sshAnswer \in SshInputs, remotePathAnswer \in RemotePathAnswers :
          LET r == resolveConfig(config, options.target, localPath, sshAnswer, remotePathAnswer) IN
          /\ prompts' = prompts \o r.asked
          /\ IF r.outcome # "ok"
             THEN /\ Exit(1)
                  /\ UNCHANGED <<config, knownHosts, sshConfig, purges, events>>
             ELSE LET c == r.config[1]
                      sshAlias == IF c.sshAlias # None THEN c.sshAlias[1]
                                  ELSE generateSshAlias(c.host, c.port)
                  IN
                  /\ config' = Some([c EXCEPT !.sshAlias = Some(sshAlias)])
                  /\ IF options.resetHostKey
                     THEN /\ knownHosts' = removeHostKey(knownHosts, c.host, c.port)
                          /\ purges' = Append(purges, "option")
                     ELSE UNCHANGED <<knownHosts, purges>>
                  /\ sshConfig' = writeHostConfig(sshConfig, sshDir, sshAlias, c.host, c.port, c.user)
                  /\ events' = Append(events, [kind |-> "writeHostConfig", detail |-> sshAlias])
                  /\ pc' = "probe"
                  /\ UNCHANGED <<exitCode, exitAt>>
    /\ UNCHANGED <<callVars, keyVars, registry, sessions, engine, probes, syncLog, reconnectAnswer, before,
                   run, options, localPath, found, idleTimeout, useGitignore>>

\* Lines 293-305 and 326-345: the first probe returns.
Probe ==
    /\ pc = "probe"
    /\ \E connResult \in ProbeResults :
          /\ probes' = Append(probes, connResult)
          /\ events' = Append(events, [kind |-> "testConnection", detail |-> config[1].sshAlias[1]])
          /\ IF connResult.success
             THEN pc' = "idleTimeout" /\ UNCHANGED <<exitCode, exitAt, prompts>>
             ELSE IF includesHostKeyFailed(connResult.error)
             THEN pc' = "confirmReconnect" /\ prompts' = Append(prompts, "reconnect")
                  /\ UNCHANGED <<exitCode, exitAt>>
             ELSE Exit(1) /\ UNCHANGED prompts
    /\ UNCHANGED <<callVars, keyVars, worldVars, purges, syncLog, reconnectAnswer, before,
                   run, options, localPath, config, found, idleTimeout, useGitignore>>

\* Lines 299-312: the answer to "Reconnect? [Y/n]"; unless it is n the host key
\* is purged and the probe is launched again.
AnswerReconnect ==
    /\ pc = "confirmReconnect"
    /\ \E answer \in YesNoAnswers :
          /\ reconnectAnswer' = Some(prompt(answer, "Y"))
          /\ IF ToLowerCase(prompt(answer, "Y")) = "n"
             THEN Exit(1) /\ UNCHANGED <<knownHosts, purges>>
             ELSE /\ knownHosts' = removeHostKey(knownHosts, config[1].host, config[1].port)
                  /\ purges' = Append(purges, "rotated")
                  /\ pc' = "retry"
                  /\ UNCHANGED <<exitCode, exitAt>>
    /\ UNCHANGED <<callVars, keyVars, registry, sessions, sshConfig, engine, probes, syncLog, prompts,
                   before, events, run, options, localPath, config, found, idleTimeout, useGitignore>>

\* Lines 312-325: the second probe returns.
RetryProbe ==
    /\ pc = "retry"
    /\ \E retryResult \in ProbeResults :
          /\ probes' = Append(probes, retryResult)
          /\ events' = Append(events, [kind |-> "testConnection", detail |-> config[1].sshAlias[1]])
          /\ IF retryResult.success
             THEN pc' = "idleTimeout" /\ UNCHANGED <<exitCode, exitAt>>
             ELSE Exit(1)
    /\ UNCHANGED <<callVars, keyVars, worldVars, purges, syncLog, prompts, reconnectAnswer, before,
                   run, options, localPath, config, found, idleTimeout, useGitignore>>

\* Lines 350-367: the idle timeout from the option or the remote environment,
\* then whether to ask about .gitignore.
\* Lines 350-359 with the remote variable as a fallback for an option that
\* is no duration.
ReadIdleTimeout_RemoteFallback ==
    /\ pc = "idleTimeout"
    /\ IF options.idleTimeout # None /\ parseDuration(options.idleTimeout[1]) # None
       THEN /\ idleTimeout' = parseDuration(options.idleTimeout[1])
            /\ UNCHANGED events
       ELSE \E remoteTimeout \in RemoteEnvValues :
               /\ idleTimeout' = IF remoteTimeout # None
                                 THEN parseDuration(remoteTimeout[1]) ELSE None
               /\ events' = Append(events, [kind |-> "getRemoteEnv",
                                            detail |-> remoteTimeout])
    /\ useGitignore' = options.useGitignore
    /\ IF ~options.useGitignore /\ hasGitignore(localPath)
       THEN pc' = "askGitignore" /\ prompts' = Append(prompts, "gitignore")
       ELSE pc' = "sync" /\ UNCHANGED prompts
    /\ UNCHANGED <<callVars, keyVars, worldVars, probes, purges, syncLog, reconnectAnswer, before,
                   run, options, localPath, config, found, exitCode, exitAt>>

ReadIdleTimeout ==
    /\ pc = "idleTimeout"
    /\ IF options.idleTimeout # None /\ options.idleTimeout[1] # ""
       THEN /\ idleTimeout' = parseDuration(options.idleTimeout[1])
            /\ UNCHANGED events
       ELSE \E remoteTimeout \in RemoteEnvValues :
               /\ idleTimeout' = IF remoteTimeout # None
                                 THEN parseDuration(remoteTimeout[1]) ELSE None
               /\ events' = Append(events, [kind |-> "getRemoteEnv",
                                            detail |-> remoteTimeout])
    /\ useGitignore' = options.useGitignore
    /\ IF ~options.useGitignore /\ hasGitignore(localPath)
       THEN pc' = "askGitignore" /\ prompts' = Append(prompts, "gitignore")
       ELSE pc' = "sync" /\ UNCHANGED prompts
    /\ UNCHANGED <<callVars, keyVars, worldVars, probes, purges, syncLog, reconnectAnswer, before,
                   run, options, localPath, config, found, exitCode, exitAt>>

\* Lines 365-366: the answer to "Exclude matching files from sync? [Y/n]".
AnswerGitignore ==
    /\ pc = "askGitignore"
    /\ \E answer \in YesNoAnswers :
          useGitignore' = (ToLowerCase(prompt(answer, "Y")) # "n")
    /\ pc' = "sync"
    /\ UNCHANGED <<callVars, keyVars, worldVars, logVars,
                   run, options, localPath, config, found, idleTimeout, exitCode, exitAt>>

\* Lines 369-391: startSync, and after it returned the registry entry and the
\* session state are written.
StartSync ==
    /\ pc = "sync"
    /\ \E installOk \in BOOLEAN :
       \E a \in IF installOk THEN EngineAnswers(engine, localPath)
                ELSE {[listExit |-> 0, resumeExit |-> 0,
                       create |-> [exitCode |-> 0, stderr |-> ""]]} :
          LET listExit == a.listExit
              resumeExit == a.resumeExit
              create == a.create
              c == config[1]
              r == startSync(engine, localPath, c.sshAlias[1], c, installOk, listExit,
                             resumeExit, create)
              saved == [c EXCEPT !.lastConnected = Some("now")]
          IN
          /\ syncLog' = Append(syncLog, r.how)
          /\ events' = events
                \o (IF r.how \in {"create", "createFailed"}
                    THEN <<[kind |-> "createResult", detail |-> create]>> ELSE <<>>)
                \o (IF r.threw
                    THEN <<[kind |-> "syncError", detail |-> r.message]>> ELSE <<>>)
          /\ IF r.threw
             THEN /\ Exit(1)
                  /\ UNCHANGED <<engine, registry, sessions, config>>
             ELSE /\ engine' = r.engine
                  /\ config' = Some(saved)
                  /\ registry' = saveConnection(registry, localPath, saved)
                  /\ sessions' = saveSession(sessions, localPath,
                                     [connected |-> TRUE, startTime |-> "now",
                                      idleTimeout |-> idleTimeout])
                  /\ pc' = "connected"
                  /\ UNCHANGED <<exitCode, exitAt>>
    /\ UNCHANGED <<callVars, keyVars, sshConfig, knownHosts, probes, purges, prompts,
                   reconnectAnswer, before,
                   run, options, localPath, found, idleTimeout, useGitignore>>

FilesWith(n, f) == [m \in KeyNames |-> IF m = n THEN f ELSE NoFile]

\* The directories connect is run with: no key at all, an unencrypted key of
\* the user, an encrypted key that is not in the agent, and the haven pair.
ConnectKeyFiles ==
    {[n \in KeyNames |-> NoFile],
     FilesWith("id_ed25519", [priv |-> TRUE, pub |-> "valid", passphrase |-> FALSE,
                              fp |-> "SHA256:a"]),
     FilesWith("id_ed25519", [priv |-> TRUE, pub |-> "valid", passphrase |-> TRUE,
                              fp |-> "SHA256:b"]),
     FilesWith(HAVEN_KEY_NAME, GeneratedPair)}

Init ==
    /\ sshDir \in [exists : {TRUE}, files : ConnectKeyFiles]
    /\ agent = [ok |-> TRUE, fps |-> {"SHA256:a"}]
    /\ kres = [op |-> "none"]
    /\ \/ Fresh
       \/ ConnectedBefore /\ hasUsableKey(sshDir, agent)
    /\ ExecIdle
    /\ CallIdle

Next ==
    \/ ConnectStart
    \/ AnswerBroadPath
    \/ EnsureKey
    \/ ResolveAndWrite
    \/ Probe
    \/ AnswerReconnect
    \/ RetryProbe
    \/ ReadIdleTimeout
    \/ AnswerGitignore
    \/ StartSync

Spec == Init /\ [][Next]_vars

----------------------------------------------------------------------------
(* ssh/config.ts called on its own, for every content of ~/.ssh/config.    *)

\* How many pieces the content of the file is put together from at the start,
\* and how many calls a behaviour holds.
MaxChunks == 2
MaxConfigOps == 3

\* Three aliases; the text of the first is a prefix of the text of the second.
AliasA == generateSshAlias("h1", 2222)
AliasA2 == generateSshAlias("h1", 22222)
AliasB == generateSshAlias("h2", 22)

\* Pieces of a config file: a block of AliasA with a blank line in it, blocks
\* of the other two aliases, a comment, an indented option, a comment followed
\* by whitespace, a blank line, and a Host line on its own.
ConfigChunks ==
    {<<ConfigLine(FALSE, <<"Host", AliasA>>), ConfigLine(TRUE, <<"HostName", "old">>),
       BlankLine, ConfigLine(TRUE, <<"User", "x">>)>>,
     <<ConfigLine(FALSE, <<"Host", AliasA2>>), ConfigLine(TRUE, <<"HostName", "two">>)>>,
     <<ConfigLine(FALSE, <<"Host", AliasB>>), ConfigLine(TRUE, <<"HostName", "b">>)>>,
     <<ConfigLine(FALSE, <<"#", "note">>)>>,
     <<ConfigLine(TRUE, <<"Compression", "yes">>)>>,
     <<[indent |-> FALSE, words |-> <<"#", "note">>, trail |-> TRUE]>>,
     <<BlankLine>>,
     <<ConfigLine(FALSE, <<"Host", AliasA>>)>>}

RECURSIVE ChunkTexts(_)
ChunkTexts(n) ==
    IF n = 0 THEN {<<>>}
    ELSE LET shorter == ChunkTexts(n - 1) IN
         shorter \cup {t \o c : t \in shorter, c \in ConfigChunks}

\* The file is missing, or its last line ends with "\n", or it ends in a Host
\* line that was typed without a line end.
ConfigFiles ==
    {None}
    \cup {Some([lines |-> l, eofNewline |-> l # <<>>]) : l \in ChunkTexts(MaxChunks)}
    \cup {Some([lines |-> l, eofNewline |-> FALSE]) :
             l \in {t \in ChunkTexts(MaxChunks) :
                       t # <<>> /\ t[Len(t)].words = <<"Host", AliasA>>}}

\* The calls made: AliasA is written for two hosts and removed, AliasB is written.
WriteCalls ==
    {[alias |-> AliasA, host |-> "h1"], [alias |-> AliasA, host |-> "h9"],
     [alias |-> AliasB, host |-> "h2"]}
RemoveCalls == {AliasA}

ConfigInit ==
    /\ sshDir = [exists |-> TRUE,
                 files |-> FilesWith("id_ed25519",
                              [priv |-> TRUE, pub |-> "valid", passphrase |-> FALSE,
                               fp |-> "SHA256:a"])]
    /\ agent = [ok |-> TRUE, fps |-> {"SHA256:a"}]
    /\ kres = [op |-> "none"]
    /\ registry = [p \in RegistryPaths |-> None]
    /\ sessions = [p \in RegistryPaths |-> None]
    /\ sshConfig \in ConfigFiles
    /\ knownHosts = Some({hostEntry("h1", 2222), hostEntry("h2", 22)})
    /\ engine = NoSyncSessions
    /\ ExecIdle
    /\ cfgStart = sshConfig
    /\ cfgPrev = sshConfig
    /\ cfgOps = <<>>
    /\ syncOps = <<>>
    /\ syncMsgs = <<>>
    /\ LibIdle

CallWriteHostConfig ==
    /\ Len(cfgOps) < MaxConfigOps
    /\ \E w \in WriteCalls :
          /\ sshConfig' = writeHostConfig(sshConfig, sshDir, w.alias, w.host, w.alias[3], "u")
          /\ cfgOps' = Append(cfgOps, [op |-> "write", alias |-> w.alias, host |-> w.host,
                                       port |-> w.alias[3], user |-> "u"])
    /\ cfgPrev' = sshConfig
    /\ UNCHANGED <<keyVars, registry, sessions, knownHosts, engine, execVars, logVars,
                   cfgStart, syncOps, syncMsgs, libVars>>

CallRemoveHostConfig ==
    /\ Len(cfgOps) < MaxConfigOps
    /\ \E alias \in RemoveCalls :
          /\ sshConfig' = removeHostConfig(sshConfig, alias)
          /\ cfgOps' = Append(cfgOps, [op |-> "remove", alias |-> alias, host |-> "",
                                       port |-> alias[3], user |-> ""])
    /\ cfgPrev' = sshConfig
    /\ UNCHANGED <<keyVars, registry, sessions, knownHosts, engine, execVars, logVars,
                   cfgStart, syncOps, syncMsgs, libVars>>

ConfigNext ==
    \/ CallWriteHostConfig
    \/ CallRemoveHostConfig

ConfigSpec == ConfigInit /\ [][ConfigNext]_vars

----------------------------------------------------------------------------
(* sync/mutagen.ts called on its own: start, stop, pause, resume and flush  *)
(* of the session of one local path, for every answer of the engine.       *)

MaxSyncOps == 3

SyncPath == "/w/p"

SyncConfig == parseConnectionFromTarget("u@h1:2222", SyncPath)[1]

\* The sessions the engine can hold at the start: none, the one of the path,
\* the one of another path, or both.
SyncEngines ==
    LET created(eng, lp) ==
            startSync(eng, lp, SyncConfig.sshAlias[1], SyncConfig, TRUE, 0, 0,
                      [exitCode |-> 0, stderr |-> ""]).engine
    IN {NoSyncSessions, created(NoSyncSessions, SyncPath), created(NoSyncSessions, "/w/dist"),
        created(created(NoSyncSessions, SyncPath), "/w/dist")}

SyncInit ==
    /\ sshDir = [exists |-> TRUE,
                 files |-> FilesWith("id_ed25519",
                              [priv |-> TRUE, pub |-> "valid", passphrase |-> FALSE,
                               fp |-> "SHA256:a"])]
    /\ agent = [ok |-> TRUE, fps |-> {"SHA256:a"}]
    /\ kres = [op |-> "none"]
    /\ registry = [p \in RegistryPaths |-> None]
    /\ sessions = [p \in RegistryPaths |-> None]
    /\ sshConfig = None
    /\ knownHosts = Some({hostEntry("h1", 2222), hostEntry("h2", 22)})
    /\ engine \in SyncEngines
    /\ ExecIdle
    /\ cfgStart = None
    /\ cfgPrev = None
    /\ cfgOps = <<>>
    /\ syncOps = <<>>
    /\ syncMsgs = <<>>
    /\ LibIdle

\* One call of the module: what it returned, what the engine held before and
\* after, the commands that exited non-zero and what was reported.
SyncCall(op, installOk, stderr, r, progress) ==
    /\ engine' = r.engine
    /\ syncOps' = Append(syncOps, [op |-> op, path |-> SyncPath,
                                   installed |-> installOk, stderr |-> stderr,
                                   outcome |-> IF r.threw THEN "throw" ELSE "return",
                                   before |-> engine, after |-> r.engine,
                                   failed |-> r.failed])
    /\ syncMsgs' = syncMsgs
          \o [i \in 1..Len(progress) |-> [kind |-> "progress", text |-> progress[i]]]
          \o [i \in 1..Len(r.logged) |-> [kind |-> "log", text |-> r.logged[i]]]
    /\ UNCHANGED <<keyVars, registry, sessions, sshConfig, knownHosts, execVars, logVars,
                   cfgStart, cfgPrev, cfgOps, libVars>>

CallStartSync ==
    /\ Len(syncOps) < MaxSyncOps
    /\ \E installOk \in BOOLEAN, a \in EngineAnswers(engine, SyncPath) :
          LET r == startSync(engine, SyncPath, SyncConfig.sshAlias[1], SyncConfig,
                             installOk, a.listExit, a.resumeExit, a.create)
          IN SyncCall("start", installOk,
                      IF r.how = "createFailed" THEN a.create.stderr ELSE "", r, r.progress)

CallStopSync ==
    /\ Len(syncOps) < MaxSyncOps
    /\ \E installOk \in BOOLEAN,
          term \in TerminateResults(engine, getSyncSessionName(SyncPath)) :
          SyncCall("stop", installOk, IF installOk THEN term.stderr ELSE "",
                   stopSync(engine, SyncPath, installOk, term), <<>>)

CallPauseSync ==
    /\ Len(syncOps) < MaxSyncOps
    /\ \E installOk \in BOOLEAN, cmdExit \in {0, 1, 255} :
          SyncCall("pause", installOk, "", pauseSync(engine, SyncPath, installOk, cmdExit), <<>>)

CallResumeSync ==
    /\ Len(syncOps) < MaxSyncOps
    /\ \E installOk \in BOOLEAN, cmdExit \in {0, 1, 255} :
          SyncCall("resume", installOk, "", resumeSync(engine, SyncPath, installOk, cmdExit), <<>>)

CallFlushSync ==
    /\ Len(syncOps) < MaxSyncOps
    /\ \E installOk \in BOOLEAN, cmdExit \in {0, 1, 255} :
          SyncCall("flush", installOk, "", flushSync(engine, SyncPath, installOk, cmdExit), <<>>)

\* getSyncStatus(SyncPath); the engine is only read.
CallGetSyncStatus ==
    /\ Len(syncOps) < MaxSyncOps
    /\ \E installOk \in BOOLEAN :
       \E list \in IF installOk THEN ListResults ELSE {[exitCode |-> 0, stderr |-> ""]} :
       \E listing \in IF installOk /\ list.exitCode = 0
                                  /\ engine[getSyncSessionName(SyncPath)] # <<>>
                      THEN SessionListings
                      ELSE {CHOOSE l \in SessionListings : l.conflictCount > 0} :
          LET r == getSyncStatus(engine, SyncPath, installOk, list, listing) IN
          /\ syncOps' = Append(syncOps, [op |-> "status", path |-> SyncPath,
                                         installed |-> installOk, stderr |-> list.stderr,
                                         outcome |-> IF r.threw THEN "throw" ELSE "return",
                                         before |-> engine, after |-> engine,
                                         failed |-> IF installOk
                                                    THEN Failed("list", list.exitCode)
                                                    ELSE <<>>,
                                         result |-> r.result])
    /\ UNCHANGED <<keyVars, worldVars, execVars, logVars,
                   cfgStart, cfgPrev, cfgOps, syncMsgs, libVars>>

SyncNext ==
    \/ CallGetSyncStatus
    \/ CallStartSync
    \/ CallStopSync
    \/ CallPauseSync
    \/ CallResumeSync
    \/ CallFlushSync

SyncSpec == SyncInit /\ [][SyncNext]_vars

----------------------------------------------------------------------------
(* connect run again after `connect /w/p u@h1:2222` stopped part-way.       *)

RerunPath == "/w/p"
RerunTarget == "u@h1:2222"
RerunConfig == parseConnectionFromTarget(RerunTarget, RerunPath)[1]

\* connect stopped after writeHostConfig: the probe failed, or the process
\* was ended before startSync.
StoppedAfterWrite ==
    /\ registry = [p \in RegistryPaths |-> None]
    /\ sessions = [p \in RegistryPaths |-> None]
    /\ sshConfig = writeHostConfig(None, sshDir, RerunConfig.sshAlias[1], RerunConfig.host,
                                   RerunConfig.port, RerunConfig.user)
    /\ knownHosts = Some({hostEntry("h1", 2222), hostEntry("h2", 22)})
    /\ engine = NoSyncSessions

\* connect stopped after startSync returned, before saveConnection.
StoppedAfterSync ==
    /\ registry = [p \in RegistryPaths |-> None]
    /\ sessions = [p \in RegistryPaths |-> None]
    /\ sshConfig = writeHostConfig(None, sshDir, RerunConfig.sshAlias[1], RerunConfig.host,
                                   RerunConfig.port, RerunConfig.user)
    /\ knownHosts = Some({hostEntry("h1", 2222), hostEntry("h2", 22)})
    /\ engine = startSync(NoSyncSessions, RerunPath, RerunConfig.sshAlias[1], RerunConfig,
                          TRUE, 0, 0, [exitCode |-> 0, stderr |-> ""]).engine

\* connect stopped between saveConnection and saveSession.
StoppedAfterSaveConnection ==
    /\ registry = saveConnection([p \in RegistryPaths |-> None], RerunPath,
                                 [RerunConfig EXCEPT !.lastConnected = Some("now")])
    /\ sessions = [p \in RegistryPaths |-> None]
    /\ sshConfig = writeHostConfig(None, sshDir, RerunConfig.sshAlias[1], RerunConfig.host,
                                   RerunConfig.port, RerunConfig.user)
    /\ knownHosts = Some({hostEntry("h1", 2222), hostEntry("h2", 22)})
    /\ engine = startSync(NoSyncSessions, RerunPath, RerunConfig.sshAlias[1], RerunConfig,
                          TRUE, 0, 0, [exitCode |-> 0, stderr |-> ""]).engine

RerunInit ==
    /\ sshDir = [exists |-> TRUE,
                 files |-> FilesWith("id_ed25519",
                              [priv |-> TRUE, pub |-> "valid", passphrase |-> FALSE,
                               fp |-> "SHA256:a"])]
    /\ agent = [ok |-> TRUE, fps |-> {"SHA256:a"}]
    /\ kres = [op |-> "none"]
    /\ \/ Fresh
       \/ StoppedAfterWrite
       \/ StoppedAfterSync
       \/ StoppedAfterSaveConnection
    /\ ExecIdle
    /\ CallIdle

RerunSpec == RerunInit /\ [][Next]_vars

----------------------------------------------------------------------------
(* The pure functions of the sync module called on their own: the session  *)
(* name, the status classifier and the ignore patterns.                    *)

MaxFnCalls == 2

\* The lines of the .gitignore files a project can have ("" is the line after
\* a final line end).
GitignoreFiles ==
    {None,
     Some(<<"">>),
     Some(<<"secret.env", "">>),
     Some(<<"# build", "", "dist/", "  ", " secret.env ", "">>),
     Some(<<"node_modules/", "*.log", "">>),
     Some(<<"secret.env", "  # build", "secret.env", "!keep.log">>)}

HashedPaths == {"/w/p", "/w/p/", "/w/dist", "/w/p/src", "/w"}

LibInit ==
    /\ sshDir = [exists |-> TRUE,
                 files |-> FilesWith("id_ed25519",
                              [priv |-> TRUE, pub |-> "valid", passphrase |-> FALSE,
                               fp |-> "SHA256:a"])]
    /\ agent = [ok |-> TRUE, fps |-> {"SHA256:a"}]
    /\ kres = [op |-> "none"]
    /\ Fresh
    /\ ExecIdle
    /\ cfgStart = None
    /\ cfgPrev = None
    /\ cfgOps = <<>>
    /\ syncOps = <<>>
    /\ syncMsgs = <<>>
    /\ gitignore \in GitignoreFiles
    /\ fnCalls = <<>>
    /\ cli = NoCli
    /\ ProcIdle

FnCall(fn, arg, result) ==
    /\ Len(fnCalls) < MaxFnCalls
    /\ fnCalls' = Append(fnCalls, [fn |-> fn, arg |-> arg, result |-> result])
    /\ UNCHANGED <<keyVars, worldVars, execVars, logVars,
                   cfgStart, cfgPrev, cfgOps, syncOps, syncMsgs, gitignore, cli, procVars>>

CallGetSyncSessionName ==
    \E p \in HashedPaths : FnCall("getSyncSessionName", p, getSyncSessionName(p))

CallParseSessionStatus ==
    \E d \in StatusDescriptions : FnCall("parseSessionStatus", d, parseSessionStatus(d))

CallGetAllIgnorePatterns ==
    \E root \in {"/w/p", "/w/dist"}, withGitignore \in BOOLEAN :
        FnCall("getAllIgnorePatterns", <<root, withGitignore>>,
               getAllIgnorePatterns(gitignore, root, withGitignore))

LibNext ==
    \/ CallGetSyncSessionName
    \/ CallParseSessionStatus
    \/ CallGetAllIgnorePatterns

LibSpec == LibInit /\ [][LibNext]_vars

----------------------------------------------------------------------------
(* The command line: main routes the argument vector to commander (connect, *)
(* disconnect, status, help) or to handleRemoteCommand, which runs it on    *)
(* the remote host of the nearest connected ancestor of the working         *)
(* directory.                                                               *)

RESERVED_COMMANDS_WithoutStatus ==
    {"connect", "disconnect", "help", "--help", "-h", "--version", "-V"}

RESERVED_COMMANDS ==
    {"connect", "disconnect", "status", "help", "--help", "-h", "--version", "-V"}

\* firstArg.startsWith("-"), over the words of the argument vectors below.
startsWithDash(word) ==
    word \in {"--", "-la", "-x", "-h", "-V", "--help", "--version", "--watch",
              "--use-gitignore", "--reset-host-key", "--idle-timeout"}

\* The argument vectors after `haven`.
ArgVectors ==
    {<<>>,
     <<"--">>,
     <<"--", "status">>,
     <<"--", "connect", "/w/p">>,
     <<"ls", "-la">>,
     <<"npm", "test", "--", "--watch">>,
     <<"connects">>,
     <<"help">>,
     <<"">>,
     <<"-x">>,
     <<"--version">>,
     <<"connect">>,
     <<"connect", "/w/p", "u@h1:2222">>,
     <<"connect", "/w/dist", "h2", "--reset-host-key">>,
     <<"connect", "/w/missing">>,
     <<"connect", "/w/p", "u@h1:2222", "--idle-timeout", "30m">>,
     <<"connect", "/w/p", "u@h1:2222", "--idle-timeout", "soon">>,
     <<"connect", "/w/p", "u@h1:2222", "--idle-timeout", "">>,
     <<"disconnect">>,
     <<"status">>}

\* process.cwd()
CliCwds == {"/", "/w", "/w/p", "/w/p/src", "/w/dist"}

\* What runRemote returns: the exit code of the remote command, or 255 of
\* the SSH client.
BridgeExitCodes == {0, 1, 2, 127, 255}

Rest(args) == SubSeq(args, 2, Len(args))

\* main with the first branch on "--" removed: a leading "--" is a flag.
mainRoute_NoEscape(args) ==
    IF Len(args) = 0 THEN [handler |-> "help", remoteArgs |-> None]
    ELSE IF args[1] # "" /\ args[1] \notin RESERVED_COMMANDS /\ ~startsWithDash(args[1])
    THEN [handler |-> "remote", remoteArgs |-> Some(args)]
    ELSE [handler |-> "parse", remoteArgs |-> None]

\* main, lines 112-133: which branch takes the argument vector, and the
\* vector handed to handleRemoteCommand.
mainRoute(args) ==
    IF Len(args) = 0 THEN [handler |-> "help", remoteArgs |-> None]
    ELSE IF args[1] = "--" THEN [handler |-> "remote", remoteArgs |-> Some(Rest(args))]
    ELSE IF args[1] # "" /\ args[1] \notin RESERVED_COMMANDS /\ ~startsWithDash(args[1])
    THEN [handler |-> "remote", remoteArgs |-> Some(args)]
    ELSE [handler |-> "parse", remoteArgs |-> None]

\* program.parseAsync: the subcommand whose action runs; anything else is
\* answered by commander itself (help, version, unknown option or command).
commandOf(args) ==
    IF args[1] \in {"connect", "disconnect", "status"} THEN args[1] ELSE "commander"

\* The operands and options commander hands to the action of
\* `connect [path] [target]`.
RECURSIVE operandsOf(_)
operandsOf(words) ==
    IF words = <<>> THEN <<>>
    ELSE IF words[1] = "--idle-timeout" THEN operandsOf(Rest(Rest(words)))
    ELSE IF startsWithDash(words[1]) THEN operandsOf(Rest(words))
    ELSE <<words[1]>> \o operandsOf(Rest(words))

hasFlag(words, flag) == \E i \in DOMAIN words : words[i] = flag

\* The value of `--idle-timeout <duration>`: the word after the flag.
optionValue(words, flag) ==
    IF \E i \in 1..(Len(words) - 1) : words[i] = flag
    THEN Some(words[(CHOOSE i \in 1..(Len(words) - 1) : words[i] = flag) + 1])
    ELSE None

connectArguments(args) ==
    LET ops == operandsOf(Rest(args)) IN
    [path |-> IF Len(ops) >= 1 THEN Some(ops[1]) ELSE None,
     options |-> [target |-> IF Len(ops) >= 2 THEN Some(ops[2]) ELSE None,
                  resetHostKey |-> hasFlag(args, "--reset-host-key"),
                  idleTimeout |-> optionValue(args, "--idle-timeout"),
                  useGitignore |-> hasFlag(args, "--use-gitignore")]]

\* handleRemoteCommand that looks at the entry of the working directory only.
handleRemoteCommand_NoWalk(reg, cwd, args, bridgeExit) ==
    LET f == findConnectionFrom_SelfOnly(reg, canonicalPath(cwd)) IN
    IF f = None THEN [found |-> f, bridge |-> None, exitCode |-> 1]
    ELSE IF f[1].config.sshAlias = None THEN [found |-> f, bridge |-> None, exitCode |-> 1]
    ELSE [found |-> f,
          bridge |-> Some([sshAlias |-> f[1].config.sshAlias[1], config |-> f[1].config,
                           localPath |-> f[1].localPath, args |-> args,
                           exitCode |-> bridgeExit]),
          exitCode |-> bridgeExit]

\* handleRemoteCommand whose exit code only tells success from failure.
handleRemoteCommand_ExitsZeroOrOne(reg, cwd, args, bridgeExit) ==
    LET f == findConnection(reg, cwd) IN
    IF f = None THEN [found |-> f, bridge |-> None, exitCode |-> 1]
    ELSE IF f[1].config.sshAlias = None THEN [found |-> f, bridge |-> None, exitCode |-> 1]
    ELSE [found |-> f,
          bridge |-> Some([sshAlias |-> f[1].config.sshAlias[1], config |-> f[1].config,
                           localPath |-> f[1].localPath, args |-> args,
                           exitCode |-> bridgeExit]),
          exitCode |-> IF bridgeExit = 0 THEN 0 ELSE 1]

\* handleRemoteCommand, lines 93-110.  bridge: the call of runRemote and the
\* exit code it returned; exitCode: the argument of process.exit.
handleRemoteCommand(reg, cwd, args, bridgeExit) ==
    LET f == findConnection(reg, cwd) IN
    IF f = None THEN [found |-> f, bridge |-> None, exitCode |-> 1]
    ELSE IF f[1].config.sshAlias = None THEN [found |-> f, bridge |-> None, exitCode |-> 1]
    ELSE [found |-> f,
          bridge |-> Some([sshAlias |-> f[1].config.sshAlias[1], config |-> f[1].config,
                           localPath |-> f[1].localPath, args |-> args,
                           exitCode |-> bridgeExit]),
          exitCode |-> bridgeExit]

\* The registry of the command line runs also holds the parent of /w/p.
CliRegistryPaths == RegistryPaths \cup {"/w"}

NothingConnected ==
    [registry |-> [p \in CliRegistryPaths |-> None],
     sessions |-> [p \in CliRegistryPaths |-> None],
     sshConfig |-> None,
     engine |-> [n \in {getSyncSessionName(p) : p \in CliRegistryPaths} |-> <<>>]]

\* What successful connects of the directories of entries leave, in order;
\* an entry without alias is one written before aliases were stored.
RECURSIVE connectedWorld(_, _, _)
connectedWorld(dir, entries, n) ==
    IF n = 0 THEN NothingConnected
    ELSE LET w == connectedWorld(dir, entries, n - 1)
             e == entries[n]
             c == parseConnectionFromTarget(e.target, e.localPath)[1]
             saved == [c EXCEPT !.lastConnected = Some("now"),
                                !.sshAlias = IF e.alias THEN @ ELSE None]
         IN [registry |-> saveConnection(w.registry, e.localPath, saved),
             sessions |-> saveSession(w.sessions, e.localPath,
                              [connected |-> TRUE, startTime |-> "now", idleTimeout |-> None]),
             sshConfig |-> writeHostConfig(w.sshConfig, dir, c.sshAlias[1], c.host, c.port, c.user),
             engine |-> startSync(w.engine, e.localPath, c.sshAlias[1], c, TRUE, 0, 0,
                                  [exitCode |-> 0, stderr |-> ""]).engine]

\* The connections the command line is run with: none, /w/p, /w/p below a
\* connected /w, only /w, and /w with an entry that has no alias.
CliConnections ==
    {<<>>,
     <<[localPath |-> "/w/p", target |-> "u@h1:2222", alias |-> TRUE]>>,
     <<[localPath |-> "/w", target |-> "h2", alias |-> TRUE],
       [localPath |-> "/w/p", target |-> "u@h1:2222", alias |-> TRUE]>>,
     <<[localPath |-> "/w", target |-> "h2", alias |-> TRUE]>>,
     <<[localPath |-> "/w", target |-> "h2", alias |-> FALSE]>>}

CliInit ==
    /\ sshDir = [exists |-> TRUE,
                 files |-> FilesWith("id_ed25519",
                              [priv |-> TRUE, pub |-> "valid", passphrase |-> FALSE,
                               fp |-> "SHA256:a"])]
    /\ agent = [ok |-> TRUE, fps |-> {"SHA256:a"}]
    /\ kres = [op |-> "none"]
    /\ \E entries \in CliConnections :
          LET w == connectedWorld(sshDir, entries, Len(entries)) IN
          /\ registry = w.registry
          /\ sessions = w.sessions
          /\ sshConfig = w.sshConfig
          /\ engine = w.engine
    /\ knownHosts = Some({hostEntry("h1", 2222), hostEntry("h2", 22)})
    /\ ExecIdle
    /\ CallIdle

\* A process that runs no connect: the execution state is that of a process
\* that ended with process.exit(code).
EndsWith(code, at) ==
    /\ pc \in {"idle", "exited", "connected"}
    /\ run < MaxRuns
    /\ run' = run + 1
    /\ pc' = "exited" /\ exitCode' = Some(code) /\ exitAt' = at
    /\ options' = NoOptions /\ localPath' = "" /\ config' = None /\ found' = None
    /\ idleTimeout' = None /\ useGitignore' = FALSE
    /\ probes' = <<>> /\ purges' = <<>> /\ syncLog' = <<>> /\ prompts' = <<>>
    /\ reconnectAnswer' = None /\ events' = <<>>
    /\ before' = [registry |-> registry, sessions |-> sessions, engine |-> engine]
    /\ UNCHANGED <<keyVars, cfgStart, cfgPrev, cfgOps, syncOps, syncMsgs, gitignore, fnCalls, procVars>>

CliRecord(args, cwd, handler, remoteArgs, f, bridge) ==
    [argv |-> args, cwd |-> cwd, handler |-> handler, remoteArgs |-> remoteArgs,
     found |-> f, bridge |-> bridge]

\* program.help(), and what commander answers itself: help and version exit
\* with 0, an unknown option or command with 1.
MainHelp ==
    /\ pc \in {"idle", "exited", "connected"}
    /\ run < MaxRuns
    /\ \E args \in ArgVectors, cwd \in CliCwds :
          LET r == mainRoute(args) IN
          /\ \/ r.handler = "help"
             \/ r.handler = "parse" /\ commandOf(args) = "commander"
          /\ cli' = CliRecord(args, cwd, IF r.handler = "help" THEN "help" ELSE "commander",
                              None, None, None)
          /\ EndsWith(IF r.handler = "help" \/ args[1] \in RESERVED_COMMANDS THEN 0 ELSE 1,
                      "commander")
          /\ UNCHANGED worldVars

\* main hands the vector to handleRemoteCommand.
MainRemote ==
    /\ pc \in {"idle", "exited", "connected"}
    /\ run < MaxRuns
    /\ \E args \in ArgVectors, cwd \in CliCwds, bridgeExit \in BridgeExitCodes :
          LET r == mainRoute(args) IN
          /\ r.handler = "remote"
          /\ LET h == handleRemoteCommand(registry, cwd, r.remoteArgs[1], bridgeExit) IN
             /\ cli' = CliRecord(args, cwd, "remote", r.remoteArgs, h.found, h.bridge)
             /\ EndsWith(h.exitCode, "remote")
          /\ UNCHANGED worldVars

\* The action of `connect [path] [target]`, lines 57-64: connect begins.
MainConnect ==
    /\ pc \in {"idle", "exited", "connected"}
    /\ run < MaxRuns
    /\ \E args \in ArgVectors, cwd \in CliCwds :
          LET r == mainRoute(args) IN
          /\ r.handler = "parse" /\ commandOf(args) = "connect"
          /\ LET a == connectArguments(args) IN
             /\ a.path # None => cwd = "/w"
             /\ ConnectBegin(a.path, a.options, cwd)
             /\ cli' = CliRecord(args, cwd, "connect", None,
                                 IF a.path = None THEN findConnection(registry, cwd) ELSE None,
                                 None)
          /\ UNCHANGED <<cfgStart, cfgPrev, cfgOps, syncOps, syncMsgs, gitignore, fnCalls, procVars>>

\* The action of `disconnect [path]`, lines 69-76: the session state of the
\* connection is deleted and its sync session paused; a throw exits with 1.
MainDisconnect ==
    /\ pc \in {"idle", "exited", "connected"}
    /\ run < MaxRuns
    /\ \E args \in ArgVectors, cwd \in CliCwds, threw \in BOOLEAN :
          LET r == mainRoute(args)
              f == findConnection(registry, cwd)
          IN
          /\ r.handler = "parse" /\ commandOf(args) = "disconnect"
          /\ cli' = CliRecord(args, cwd, "disconnect", None, f, None)
          /\ EndsWith(IF threw \/ f = None THEN 1 ELSE 0, "disconnect")
          /\ IF threw \/ f = None
             THEN UNCHANGED worldVars
             ELSE /\ sessions' = [sessions EXCEPT ![f[1].localPath] = None]
                  /\ engine' = pauseSync(engine, f[1].localPath, TRUE, 0).engine
                  /\ UNCHANGED <<registry, sshConfig, knownHosts>>

\* The action of `status [path]`, lines 84-91: reads the registry and polls
\* the engine; a throw exits with 1.
MainStatus ==
    /\ pc \in {"idle", "exited", "connected"}
    /\ run < MaxRuns
    /\ \E args \in ArgVectors, cwd \in CliCwds, threw \in BOOLEAN :
          LET r == mainRoute(args)
              f == findConnection(registry, cwd)
          IN
          /\ r.handler = "parse" /\ commandOf(args) = "status"
          /\ cli' = CliRecord(args, cwd, "status", None, f, None)
          /\ EndsWith(IF threw THEN 1 ELSE 0, "status")
          /\ UNCHANGED worldVars

CliNext ==
    \/ MainHelp
    \/ MainRemote
    \/ MainConnect
    \/ MainDisconnect
    \/ MainStatus
    \/ AnswerBroadPath
    \/ EnsureKey
    \/ ResolveAndWrite
    \/ Probe
    \/ AnswerReconnect
    \/ RetryProbe
    \/ ReadIdleTimeout
    \/ AnswerGitignore
    \/ StartSync

CliSpec == CliInit /\ [][CliNext]_vars

----------------------------------------------------------------------------
(* The key module called on its own, for every directory content.          *)

KeyInit ==
    /\ sshDir \in [exists : BOOLEAN,
                   files : {f \in [KeyNames -> UserFileStates \cup HavenFileStates] :
                              /\ f[HAVEN_KEY_NAME] \in HavenFileStates
                              /\ \A n \in UserKeyNames : f[n] \in UserFileStates}]
    /\ ~sshDir.exists => \A n \in KeyNames : sshDir.files[n] = NoFile
    /\ agent \in [ok : BOOLEAN, fps : SUBSET UserFingerprints]
    /\ ~agent.ok => agent.fps = {}
    /\ kres = [op |-> "none"]
    /\ ConnectIdle
    /\ CallIdle

CallFindExistingKeys ==
    /\ kres' = [op |-> "findExistingKeys", keys |-> findExistingKeys(sshDir)]
    /\ UNCHANGED <<sshDir, agent, worldVars, execVars, logVars, callVars>>

CallAnalyzeKeys ==
    /\ kres' = [op |-> "analyzeKeys", analyses |-> analyzeKeys(sshDir, agent)]
    /\ UNCHANGED <<sshDir, agent, worldVars, execVars, logVars, callVars>>

CallHasUsableKey ==
    /\ kres' = [op |-> "hasUsableKey", result |-> hasUsableKey(sshDir, agent)]
    /\ UNCHANGED <<sshDir, agent, worldVars, execVars, logVars, callVars>>

CallGenerateHavenKey ==
    \E keygenExit \in {0, 1} :
        LET r == generateHavenKey(sshDir, keygenExit) IN
        /\ sshDir' = r.dir
        /\ kres' = [op |-> "generateHavenKey", threw |-> r.threw]
        /\ UNCHANGED <<agent, worldVars, execVars, logVars, callVars>>

CallEnsureUsableKey ==
    \E answer \in ChoiceAnswers, keygenExit \in {0, 1} :
        LET r == ensureUsableKey(sshDir, agent, answer, keygenExit) IN
        /\ sshDir' = r.dir
        /\ kres' = [op |-> "ensureUsableKey", before |-> sshDir, r |-> r]
        /\ UNCHANGED <<agent, worldVars, execVars, logVars, callVars>>

\* generateHostConfig(alias, host, port, user) over the key directory.
CallGenerateHostConfig ==
    \E h \in {[host |-> "h1", port |-> 2222, user |-> "u"],
              [host |-> "h2", port |-> 22, user |-> "abc"]} :
        /\ kres' = [op |-> "generateHostConfig",
                    alias |-> generateSshAlias(h.host, h.port),
                    host |-> h.host, port |-> h.port, user |-> h.user,
                    block |-> generateHostConfig(sshDir, generateSshAlias(h.host, h.port),
                                                 h.host, h.port, h.user)]
        /\ UNCHANGED <<sshDir, agent, worldVars, execVars, logVars, callVars>>

KeyNext ==
    \/ CallGenerateHostConfig
    \/ CallEnsureUsableKey
    \/ CallFindExistingKeys
    \/ CallAnalyzeKeys
    \/ CallHasUsableKey
    \/ CallGenerateHavenKey

KeySpec == KeyInit /\ [][KeyNext]_vars

----------------------------------------------------------------------------
(* Claims about the key module, checked under KeySpec.                     *)

\* C7: for every discovered key and every combination of encrypted / inAgent,
\* the KeyAnalysis analyzeKeys returns has usable = (~encrypted \/ inAgent).
C7_UsableIffNotEncryptedOrInAgent ==
    kres.op = "analyzeKeys" =>
        /\ {a.key : a \in kres.analyses} = findExistingKeys(sshDir)
        /\ \A a \in kres.analyses : a.usable = (~a.encrypted \/ a.inAgent)

\* analyzeKeys returned an encrypted key that is in the agent beside an encrypted
\* key that is not.
C7_Witness ==
    /\ kres.op = "analyzeKeys"
    /\ \E a, b \in kres.analyses :
          /\ a.encrypted /\ a.inAgent /\ a.usable
          /\ b.encrypted /\ ~b.inAgent /\ ~b.usable

\* C8: ensureUsableKey decides in the order (1) no key discovered: generate the
\* haven key and show it; (2) haven key present: proceed without analysis;
\* (3) some analysed key usable: proceed; (4) otherwise prompt, choice "1"
\* generates, any other choice exits 1.  Whenever it returns normally the haven
\* key exists or a discovered key was analysed as usable.
C8_DecisionTable ==
    kres.op = "ensureUsableKey" =>
        LET r == kres.r
            noKeys == findExistingKeys(kres.before) = {}
            haven == hasHavenKey(kres.before)
            usable == \E n \in findExistingKeys(kres.before) :
                         ~kres.before.files[n].passphrase
                         \/ (agent.ok /\ kres.before.files[n].fp \in agent.fps)
        IN
        /\ noKeys =>
              /\ r.branch = "NO_KEYS" /\ ~r.analysed /\ r.choice = None
              /\ r.outcome \in {"return", "throw"}
              /\ r.outcome = "return" <=> (r.generated /\ r.shown)
        /\ (~noKeys /\ haven) =>
              /\ r.branch = "HAVEN_KEY_EXISTS" /\ ~r.analysed /\ r.choice = None
              /\ r.outcome = "return" /\ ~r.generated /\ sshDir = kres.before
        /\ (~noKeys /\ ~haven /\ usable) =>
              /\ r.branch = "HAS_USABLE" /\ r.analysed /\ r.choice = None
              /\ r.outcome = "return" /\ ~r.generated /\ sshDir = kres.before
        /\ (~noKeys /\ ~haven /\ ~usable) =>
              /\ r.branch = "NO_USABLE" /\ r.analysed /\ r.choice # None
              /\ r.choice = Some("1") =>
                    /\ r.outcome \in {"return", "throw"}
                    /\ r.outcome = "return" <=> (r.generated /\ r.shown)
              /\ r.choice # Some("1") =>
                    r.outcome = "exit1" /\ ~r.generated /\ sshDir = kres.before
        /\ r.outcome = "return" =>
              \/ hasHavenKey(sshDir)
              \/ (r.analysed /\ \E a \in r.analyses : a.usable)

\* ensureUsableKey found only encrypted keys outside the agent, asked, and
\* generated the haven key on the default answer.
C8_Witness ==
    /\ kres.op = "ensureUsableKey"
    /\ kres.r.branch = "NO_USABLE" /\ kres.r.choice = Some("1")
    /\ kres.r.outcome = "return" /\ kres.r.generated
    /\ ~hasHavenKey(kres.before) /\ hasHavenKey(sshDir)

\* C9: a managed key is always usable and never encrypted: with the haven pair
\* present hasUsableKey returns true, and the haven key's entry in analyzeKeys
\* has encrypted = FALSE and usable = TRUE.
C9_ManagedKeyUsable ==
    /\ (kres.op = "hasUsableKey" /\ hasHavenKey(sshDir)) => kres.result
    /\ kres.op = "analyzeKeys" =>
          \A a \in kres.analyses :
              a.key = HAVEN_KEY_NAME => (~a.encrypted /\ a.usable)

\* analyzeKeys analysed the haven key beside an unusable key of the user.
C9_Witness ==
    /\ kres.op = "analyzeKeys"
    /\ \E a, b \in kres.analyses :
          a.key = HAVEN_KEY_NAME /\ b.key # HAVEN_KEY_NAME /\ ~b.usable

\* The file names the tests of findExistingKeys treat as known key names.
WellKnownKeyNames == {"id_rsa", "id_ecdsa", "id_ed25519", "id_dsa", HAVEN_KEY_NAME}

\* C10: findExistingKeys returns only keys with a well-known file name whose
\* private and .pub files both exist and whose public file is a valid,
\* non-empty key record; a pair under another name is not returned.
C10_OnlyWellKnownNames ==
    kres.op = "findExistingKeys" =>
        \A n \in kres.keys :
            /\ n \in WellKnownKeyNames
            /\ sshDir.files[n].priv
            /\ sshDir.files[n].pub = "valid"


----------------------------------------------------------------------------
(* connect: the probe, the purge, the sync session and what is persisted.  *)

Count(seq, x) == Cardinality({i \in DOMAIN seq : seq[i] = x})

LastProbe == probes[Len(probes)]

\* The stages behind a successful probe.
PastProbe == {"idleTimeout", "askGitignore", "sync", "connected"}

\* The operator's answer to "Reconnect? [Y/n]" is n in either case.
Declined == reconnectAnswer # None /\ reconnectAnswer[1] \in {"n", "N"}

Confirmed == reconnectAnswer # None /\ reconnectAnswer[1] \notin {"n", "N"}

FirstProbeHostKeyFailed ==
    /\ probes # <<>>
    /\ ~probes[1].success
    /\ probes[1].error \in HostKeyErrors

\* C1: startSync is invoked only when the most recent probe of the execution
\* succeeded; an execution whose last probe failed never starts, creates or
\* resumes a sync session.
C1_SyncOnlyAfterSuccessfulProbe ==
    /\ (pc \in PastProbe \/ syncLog # <<>>) => (probes # <<>> /\ LastProbe.success)
    /\ (probes # <<>> /\ ~LastProbe.success) => (syncLog = <<>> /\ engine = before.engine)
    /\ probes = <<>> => (syncLog = <<>> /\ engine = before.engine)

C1_Witness ==
    /\ pc = "connected"
    /\ Len(probes) = 2 /\ ~probes[1].success /\ probes[2].success
    /\ syncLog = <<"create">>
    /\ engine # before.engine

\* C2: the registry entry and the session state are written only after
\* startSync returned without error; an execution that ends in a failure of
\* the key stage, of a probe or of startSync exits 1 and leaves both as they
\* were.
C2_PersistOnlyAfterSync ==
    /\ (registry # before.registry \/ sessions # before.sessions)
          => /\ pc = "connected"
             /\ syncLog # <<>>
             /\ syncLog[Len(syncLog)] \in {"create", "resume"}
    /\ pc = "exited"
          => /\ registry = before.registry
             /\ sessions = before.sessions
             /\ exitAt \in {"ensureKey", "probe", "confirmReconnect", "retry", "sync"}
                   => exitCode = Some(1)

C2_Witness ==
    /\ pc = "exited" /\ exitAt = "sync" /\ exitCode = Some(1)
    /\ syncLog = <<"createFailed">>
    /\ before.registry["/w/p"] # None
    /\ registry = before.registry

\* C3 as stated: after a first probe that failed with "Host key verification
\* failed" and a confirming operator, removeHostKey ran exactly once in the
\* execution, whatever the options.
C3_OnePurgeInExecution ==
    (FirstProbeHostKeyFailed /\ Confirmed) => Len(purges) = 1

\* C3: after a first probe that failed with "Host key verification failed"
\* and a confirming operator, removeHostKey ran exactly once in response to
\* the failure (and once more, before the probe, under --reset-host-key), the
\* probe is retried exactly once, and a successful retry goes on to startSync.
C3_OnePurgePerRotation ==
    (FirstProbeHostKeyFailed /\ Confirmed)
        => /\ Count(purges, "rotated") = 1
           /\ Len(purges) = IF options.resetHostKey THEN 2 ELSE 1
           /\ Len(probes) = IF pc = "retry" THEN 1 ELSE 2
           /\ (Len(probes) = 2 /\ probes[2].success)
                 => /\ pc \in PastProbe \cup {"exited"}
                    /\ pc = "exited" => exitAt = "sync"

C3_Witness ==
    /\ FirstProbeHostKeyFailed /\ Confirmed
    /\ options.resetHostKey
    /\ purges = <<"option", "rotated">>
    /\ Len(probes) = 2 /\ probes[2].success
    /\ pc = "connected"

\* C4: the probe is invoked at most twice in an execution; when the retry
\* fails the execution exits 1 with no further purge, no third probe, no
\* sync start and no registry or session write.
C4_AtMostTwoProbes ==
    /\ Len(probes) <= 2
    /\ (Len(probes) = 2 /\ ~probes[2].success)
          => /\ pc = "exited" /\ exitCode = Some(1) /\ exitAt = "retry"
             /\ Count(purges, "rotated") = 1
             /\ syncLog = <<>>
             /\ engine = before.engine
             /\ registry = before.registry
             /\ sessions = before.sessions

C4_Witness ==
    /\ Len(probes) = 2
    /\ ~probes[2].success /\ probes[2].error \in HostKeyErrors
    /\ pc = "exited" /\ exitCode = Some(1)

Resolved ==
    \/ pc \in {"probe", "confirmReconnect", "retry"} \cup PastProbe
    \/ pc = "exited" /\ exitAt \in {"probe", "confirmReconnect", "retry", "sync"}

SameEndpoint(c, d) ==
    /\ c.host = d.host /\ c.port = d.port /\ c.user = d.user
    /\ c.remotePath = d.remotePath

TargetGiven == options.target # None /\ options.target[1] # ""

Happened(kind) == \E i \in DOMAIN events : events[i].kind = kind

\* C11: when ssh-keygen exits non-zero while connect generates the managed
\* key, connect ends with exit code 1 at the key stage and no later stage
\* acts: no host block is written, no host key purged, no probe run, no sync
\* started, and the registry, the session state and the engine are untouched.
C11_KeygenFailureIsFatal ==
    Happened("keygenFailed")
        => /\ pc = "exited" /\ exitCode = Some(1) /\ exitAt = "ensureKey"
           /\ ~Happened("writeHostConfig")
           /\ probes = <<>> /\ purges = <<>> /\ syncLog = <<>>
           /\ registry = before.registry
           /\ sessions = before.sessions
           /\ engine = before.engine

C11_Witness ==
    /\ Happened("keygenFailed")
    /\ pc = "exited"
    /\ options.target = Some("u@h1:2222")
    /\ ~hasHavenKey(sshDir)


----------------------------------------------------------------------------
(* ssh/config.ts: the Host blocks of ~/.ssh/config.                        *)

\* The line reads Host <alias>, whatever whitespace surrounds it.
IsHostLine(l, alias) == Len(l.words) = 2 /\ l.words[1] = "Host" /\ l.words[2] = alias

\* The line begins a block of any alias.
IsAnyHostLine(l) == ~l.indent /\ Len(l.words) >= 2 /\ l.words[1] = "Host"

\* The line after the block that starts at line j: the next line beginning a
\* block, or the line after the last.
BlockEnd(text, j) ==
    LET later == {k \in (j + 1)..Len(text.lines) : IsAnyHostLine(text.lines[k])}
                 \cup {Len(text.lines) + 1}
    IN CHOOSE k \in later : \A m \in later : k <= m

\* The lines of the blocks of the alias: each line Host <alias> with the lines
\* after it up to the next line beginning a block.
BlockRegion(text, alias) ==
    UNION {j..(BlockEnd(text, j) - 1) :
             j \in {i \in DOMAIN text.lines : IsHostLine(text.lines[i], alias)}}

\* The same, for the blocks whose Host line is followed by a line end.
EndedBlockRegion(text, alias) ==
    UNION {j..(BlockEnd(text, j) - 1) :
             j \in {i \in DOMAIN text.lines :
                      /\ IsHostLine(text.lines[i], alias)
                      /\ ~text.lines[i].indent /\ ~text.lines[i].trail
                      /\ (i < Len(text.lines) \/ text.eofNewline)}}

NumBlocks(text, alias) ==
    Cardinality({i \in DOMAIN text.lines : IsHostLine(text.lines[i], alias)})

\* The lines at the indices in S, in their order.
RECURSIVE LinesAt(_, _, _)
LinesAt(text, S, i) ==
    IF i > Len(text.lines) THEN <<>>
    ELSE (IF i \in S THEN <<text.lines[i]>> ELSE <<>>) \o LinesAt(text, S, i + 1)

\* The lines of the blocks of the alias that are not blank.
BlockLines(text, alias) ==
    LinesAt(text, {i \in BlockRegion(text, alias) : ~isBlank(text.lines[i])}, 1)

\* The same lines, word for word.
BlockWords(text, alias) ==
    LET b == BlockLines(text, alias) IN [k \in DOMAIN b |-> b[k].words]

\* The lines outside the blocks of the aliases in As that are not blank.
LinesOutside(text, As) ==
    LET inside == UNION {BlockRegion(text, a) : a \in As} IN
    LinesAt(text, {i \in DOMAIN text.lines : ~isBlank(text.lines[i]) /\ i \notin inside}, 1)

TextOf(file) == IF file = None THEN EmptyText ELSE file[1]

IsWrite(o, alias) == o.op = "write" /\ o.alias = alias

WroteABA ==
    /\ Len(cfgOps) = 3
    /\ IsWrite(cfgOps[1], AliasA) /\ IsWrite(cfgOps[2], AliasB) /\ IsWrite(cfgOps[3], AliasA)

BlocksAfterABA ==
    /\ NumBlocks(TextOf(sshConfig), AliasA) = 1
    /\ BlockLines(TextOf(sshConfig), AliasA)
          = generateHostConfig(sshDir, AliasA, cfgOps[3].host, cfgOps[3].port, cfgOps[3].user)
    /\ NumBlocks(TextOf(sshConfig), AliasB) = 1
    /\ BlockLines(TextOf(sshConfig), AliasB)
          = generateHostConfig(sshDir, AliasB, cfgOps[2].host, cfgOps[2].port, cfgOps[2].user)

\* C12 as stated: after writing A, B and A again there is one block of A with
\* the content of the last write, one block of B as written, and the lines
\* outside the blocks of A and B are those of the content at the start, each
\* verbatim and in order.
C12_UnrelatedVerbatim ==
    WroteABA
        => /\ BlocksAfterABA
           /\ LinesOutside(TextOf(sshConfig), {AliasA, AliasB})
                 = LinesOutside(TextOf(cfgStart), {AliasA, AliasB})

\* C12: after writing A, B and A again there is one block of A with the
\* content of the last write, one block of B as written, and the non-blank
\* lines outside the blocks of A and B are those of the content at the start,
\* in order and word for word; the first of them has lost the whitespace in
\* front of it, and the last may have lost the whitespace behind it.
C12_UnrelatedKeptUpToTrim ==
    WroteABA
        => /\ BlocksAfterABA
           /\ LET now == LinesOutside(TextOf(sshConfig), {AliasA, AliasB})
                  start == LinesOutside(TextOf(cfgStart), {AliasA, AliasB})
              IN /\ Len(now) = Len(start)
                 /\ \A k \in DOMAIN now :
                       /\ now[k].words = start[k].words
                       /\ now[k].indent = (start[k].indent /\ k # 1)
                       /\ now[k].trail => start[k].trail
                       /\ k < Len(now) => now[k].trail = start[k].trail

C12_Witness ==
    /\ WroteABA
    /\ cfgOps[1].host # cfgOps[3].host
    /\ NumBlocks(TextOf(cfgStart), AliasA) = 1
    /\ NumBlocks(TextOf(cfgStart), AliasA2) = 1
    /\ NumBlocks(TextOf(sshConfig), AliasA2) = 1

LastCfgOp == cfgOps[Len(cfgOps)]

OtherAliases(alias) == {AliasA, AliasA2, AliasB} \ {alias}

\* C13 as stated: after removeHostConfig(alias) on an existing file the file
\* exists, holds no block of the alias, and holds the blocks of every other
\* alias as before, also when the block of the alias was all the file held.
C13_RemoveLeavesNoBlock ==
    (cfgOps # <<>> /\ LastCfgOp.op = "remove" /\ cfgPrev # None)
        => /\ sshConfig # None
           /\ NumBlocks(TextOf(sshConfig), LastCfgOp.alias) = 0
           /\ \A a \in OtherAliases(LastCfgOp.alias) :
                 BlockWords(TextOf(sshConfig), a) = BlockWords(TextOf(cfgPrev), a)

\* The lines of the text outside the ended blocks of the alias.
WithoutBlocksOf(text, alias) ==
    LET S == DOMAIN text.lines \ EndedBlockRegion(text, alias) IN
    [lines |-> LinesAt(text, S, 1),
     eofNewline |-> IF Len(text.lines) \in S THEN text.eofNewline ELSE S # {}]

\* C14: what a write or a remove cuts out for alias A is every line Host A
\* that is followed by a line end, with the lines after it up to the next
\* line beginning with "Host " or the end of the file, blank lines included;
\* the block of an alias whose text starts with that of A stays.
C14_DeletedRegion ==
    (cfgOps # <<>> /\ cfgPrev # None)
        => LET o == LastCfgOp
               rest == trimText(WithoutBlocksOf(TextOf(cfgPrev), o.alias)).lines
               now == TextOf(sshConfig).lines
           IN /\ o.op = "remove" /\ sshConfig # cfgPrev => now = rest
              /\ o.op = "write" =>
                    /\ Len(now) >= Len(rest)
                    /\ SubSeq(now, 1, Len(rest)) = rest
                    /\ LET added == SubSeq(now, Len(rest) + 1, Len(now)) IN
                       SelectSeq(added, LAMBDA l : ~isBlank(l))
                          = generateHostConfig(sshDir, o.alias, o.host, o.port, o.user)
              /\ (o.alias = AliasA /\ sshConfig # cfgPrev)
                    => BlockWords(TextOf(sshConfig), AliasA2)
                          = BlockWords(TextOf(cfgPrev), AliasA2)

C14_Witness ==
    /\ Len(cfgOps) = 1 /\ cfgOps[1].op = "remove" /\ cfgOps[1].alias = AliasA
    /\ cfgPrev # None
    /\ \E i \in DOMAIN cfgPrev[1].lines :
          /\ isBlank(cfgPrev[1].lines[i])
          /\ i < Len(cfgPrev[1].lines)
          /\ i + 1 \in EndedBlockRegion(cfgPrev[1], AliasA)
    /\ NumBlocks(cfgPrev[1], AliasA2) = 1
    /\ NumBlocks(TextOf(sshConfig), AliasA) = 0
    /\ NumBlocks(TextOf(sshConfig), AliasA2) = 1

----------------------------------------------------------------------------
(* sync/mutagen.ts: the sessions of the engine and the failures of its     *)
(* commands, checked under SyncSpec.                                       *)

SyncName == getSyncSessionName(SyncPath)

\* The engine could be run and answered about the session, not about itself.
AnsweredAboutSession(o) == o.installed /\ o.stderr \notin OtherEngineErrors

FailedCmds(o) == {o.failed[k].cmd : k \in DOMAIN o.failed}

\* C15: after any sequence of start, stop, pause, resume and flush (starts
\* during which the list command fails included) the engine holds at most one
\* session per session id: start creates a session only when none with that id
\* exists, otherwise it resumes.
C15_AtMostOneSessionPerId ==
    /\ \A n \in DOMAIN engine : Len(engine[n]) <= 1
    /\ \A i \in DOMAIN syncOps :
          (syncOps[i].op = "start" /\ syncOps[i].after # syncOps[i].before)
              => syncOps[i].before[SyncName] = <<>>

\* C17: stop on a path without a matching session returns success and leaves
\* the list of the engine's sessions unchanged; a second stop right after a
\* stop has the same outcome and leaves the same sessions as the first.
C17_StopIsIdempotent ==
    \A i \in DOMAIN syncOps :
        LET o == syncOps[i] IN
        (o.op = "stop" /\ AnsweredAboutSession(o))
            => /\ o.outcome = "return"
               /\ o.after[SyncName] = <<>>
               /\ o.before[SyncName] = <<>> => o.after = o.before
               /\ (i > 1 /\ syncOps[i - 1].op = "stop"
                         /\ AnsweredAboutSession(syncOps[i - 1]))
                     => /\ o.outcome = syncOps[i - 1].outcome
                        /\ o.after = syncOps[i - 1].after

C17_Witness ==
    /\ Len(syncOps) = 3
    /\ \A i \in 1..3 : syncOps[i].op = "stop" /\ syncOps[i].outcome = "return"
    /\ syncOps[1].before[SyncName] # <<>>
    /\ syncOps[2].before[SyncName] = <<>>
    /\ syncOps[2].failed # <<>>
    /\ \E n \in DOMAIN engine : engine[n] # <<>>
    /\ syncOps[3].after = syncOps[1].after

\* C19: pauseSync, resumeSync and flushSync return normally for every exit code
\* of the engine's command, and a start that resumes an existing session
\* returns success also when the resume command failed.
C19_PauseResumeFlushNonFatal ==
    \A i \in DOMAIN syncOps :
        LET o == syncOps[i] IN
        /\ (o.op \in {"pause", "resume", "flush"} /\ o.installed) => o.outcome = "return"
        /\ (o.op = "start" /\ "resume" \in FailedCmds(o)) => o.outcome = "return"

C19_Witness ==
    /\ Len(syncOps) = 3
    /\ syncOps[1].op = "pause" /\ syncOps[1].failed = <<[cmd |-> "pause", exitCode |-> 255]>>
    /\ syncOps[2].op = "flush" /\ syncOps[2].failed = <<[cmd |-> "flush", exitCode |-> 1]>>
    /\ syncOps[3].op = "start" /\ syncOps[3].failed = <<[cmd |-> "resume", exitCode |-> 1]>>
    /\ \A i \in 1..3 : syncOps[i].outcome = "return"
    /\ syncOps[3].after = syncOps[1].before

\* C20: every non-zero exit of the engine's pause, resume or flush command has
\* a log record.
C20_FailuresAreLogged ==
    \A i \in DOMAIN syncOps :
        \A k \in DOMAIN syncOps[i].failed :
            syncOps[i].failed[k].cmd \in {"pause", "resume", "flush"}
                => \E j \in DOMAIN syncMsgs : syncMsgs[j].kind = "log"

----------------------------------------------------------------------------
(* connect and the sync engine: a failed create, and a connect run again   *)
(* after an interruption.                                                  *)

EventsOf(kind) == SelectSeq(events, LAMBDA e : e.kind = kind)

\* C18: when the engine's create command exits non-zero, start raises an error
\* that carries the engine's stderr text, and connect then exits with code 1
\* without writing the registry or the session state.
C18_CreateFailureIsFatal ==
    (syncLog # <<>> /\ syncLog[Len(syncLog)] = "createFailed")
        => /\ pc = "exited" /\ exitCode = Some(1) /\ exitAt = "sync"
           /\ registry = before.registry
           /\ sessions = before.sessions
           /\ engine = before.engine
           /\ Len(EventsOf("createResult")) = 1
           /\ Len(EventsOf("syncError")) = 1
           /\ EventsOf("createResult")[1].detail.exitCode # 0
           /\ EventsOf("syncError")[1].detail
                 = <<"Failed to start sync: ", EventsOf("createResult")[1].detail.stderr>>

C18_Witness ==
    /\ syncLog = <<"createFailed">>
    /\ pc = "exited"
    /\ EventsOf("createResult")[1].detail.stderr = "Error: unable to connect to beta"
    /\ EventsOf("syncError")[1].detail[2] = "Error: unable to connect to beta"
    /\ Len(probes) = 1
    /\ registry["/w/p"] = None

\* The execution is `connect /w/p u@h1:2222` and has reached CONNECTED.
RerunSucceeded ==
    /\ pc = "connected"
    /\ localPath = RerunPath
    /\ options.target = Some(RerunTarget)

\* C16: a connect that is run again with the same inputs after an earlier
\* execution stopped at any stage, and succeeds, ends in the state of one
\* uninterrupted successful connect: exactly one Host block for the alias,
\* exactly one engine session for the session id of the path, and one registry
\* entry for the path.
C16_RerunEndsAsUninterrupted ==
    RerunSucceeded
        => /\ NumBlocks(TextOf(sshConfig), RerunConfig.sshAlias[1]) = 1
           /\ sshConfig = writeHostConfig(None, sshDir, RerunConfig.sshAlias[1],
                                          RerunConfig.host, RerunConfig.port, RerunConfig.user)
           /\ Len(engine[getSyncSessionName(RerunPath)]) = 1
           /\ engine = startSync(NoSyncSessions, RerunPath, RerunConfig.sshAlias[1],
                                 RerunConfig, TRUE, 0, 0,
                                 [exitCode |-> 0, stderr |-> ""]).engine
           /\ registry[RerunPath] = Some([RerunConfig EXCEPT !.lastConnected = Some("now")])
           /\ registry["/w/dist"] = None
           /\ sessions[RerunPath] # None

----------------------------------------------------------------------------
(* The pure functions of the sync module, checked under LibSpec.           *)

CallsOf(fn) == {i \in DOMAIN fnCalls : fnCalls[i].fn = fn}

StatusEnum ==
    {"watching", "scanning", "staging", "reconciling", "saving", "halted", "disconnected",
     "unknown"}

KeywordOrder ==
    <<"watching", "scanning", "staging", "reconciling", "saving", "halted", "disconnected">>

\* The keywords that occur in the lower-cased description.
KeywordsIn(d) ==
    IF d = None THEN {}
    ELSE {k \in DOMAIN KeywordOrder : lowerIncludes(d[1], KeywordOrder[k])}

FirstKeyword(d) ==
    IF KeywordsIn(d) = {} THEN "unknown"
    ELSE KeywordOrder[CHOOSE k \in KeywordsIn(d) : \A m \in KeywordsIn(d) : k <= m]

\* C21: the status classifier returns a member of the closed enum for every
\* description: the first of watching, scanning, staging, reconciling, saving,
\* halted, disconnected that occurs in it (case-insensitive substring), and
\* unknown for an empty, missing or unrecognized description; never the
\* engine's text.
C21_StatusIsFirstKeyword ==
    \A i \in CallsOf("parseSessionStatus") :
        LET d == fnCalls[i].arg
            st == fnCalls[i].result
        IN /\ st \in StatusEnum
           /\ st = FirstKeyword(d)
           /\ (d = None \/ d = Some(<<>>)) => st = "unknown"

C21_Witness ==
    /\ Len(fnCalls) = 2
    /\ \A i \in 1..2 : fnCalls[i].fn = "parseSessionStatus"
    /\ fnCalls[1] = [fn |-> "parseSessionStatus", arg |-> Some(<<"Halted", "WATCHING">>),
                     result |-> "watching"]
    /\ fnCalls[2] = [fn |-> "parseSessionStatus", arg |-> Some(<<"Connecting">>),
                     result |-> "unknown"]

\* h := 31 * h + charCode, kept to 32 bits.
Times31Plus(h, c) == Int32(31 * h.hi + (31 * h.lo + c) \div Half, 31 * h.lo + c)

RECURSIVE Fold31(_, _)
Fold31(codes, n) == IF n = 0 THEN Int32(0, 0) ELSE Times31Plus(Fold31(codes, n - 1), codes[n])

SessionIdOf(canonical) ==
    "haven-" \o toString36(abs32(Fold31(charCodes(canonical), Len(charCodes(canonical)))))

\* C22: the session id is a function of the canonicalized local path alone:
\* "haven-" followed by the base-36 rendering of the absolute value of the
\* 32-bit signed hash h := 31*h + charCode over the canonical path; two paths
\* with the same canonical path get the same id.
C22_SessionIdOfCanonicalPath ==
    \A i \in CallsOf("getSyncSessionName") :
        /\ fnCalls[i].result = SessionIdOf(canonicalPath(fnCalls[i].arg))
        /\ \A j \in CallsOf("getSyncSessionName") :
              canonicalPath(fnCalls[i].arg) = canonicalPath(fnCalls[j].arg)
                  => fnCalls[i].result = fnCalls[j].result

C22_Witness ==
    /\ Len(fnCalls) = 2
    /\ \A i \in 1..2 : fnCalls[i].fn = "getSyncSessionName"
    /\ fnCalls[1] = [fn |-> "getSyncSessionName", arg |-> "/w/p", result |-> "haven-whu1"]
    /\ fnCalls[2] = [fn |-> "getSyncSessionName", arg |-> "/w/p/", result |-> "haven-whu1"]
    /\ getSyncSessionName("/w/dist") = "haven-ydjt1v"

SetOf(seq) == {seq[i] : i \in DOMAIN seq}

\* The patterns of the project's ignore file: its trimmed lines that are
\* neither empty nor comments.
ProjectPatterns(root) ==
    IF root # "/w/p" \/ gitignore = None THEN {}
    ELSE {Trim(l) : l \in SetOf(gitignore[1])} \ {"", "# build", "#"}

\* C23: getAllIgnorePatterns(path, false) is exactly the baseline whatever the
\* ignore file holds; getAllIgnorePatterns(path, true) is the union of the
\* baseline and the project's patterns, every pattern exactly once.
C23_IgnorePatterns ==
    \A i \in CallsOf("getAllIgnorePatterns") :
        LET root == fnCalls[i].arg[1]
            withGitignore == fnCalls[i].arg[2]
            result == fnCalls[i].result
        IN /\ ~withGitignore => result = DEFAULT_IGNORE_PATTERNS
           /\ withGitignore =>
                 /\ SetOf(result) = SetOf(DEFAULT_IGNORE_PATTERNS) \cup ProjectPatterns(root)
                 /\ \A a, b \in DOMAIN result : result[a] = result[b] => a = b

C23_Witness ==
    /\ gitignore = Some(<<"# build", "", "dist/", "  ", " secret.env ", "">>)
    /\ Len(fnCalls) = 2
    /\ \A i \in 1..2 : fnCalls[i].fn = "getAllIgnorePatterns"
    /\ fnCalls[1] = [fn |-> "getAllIgnorePatterns", arg |-> <<"/w/p", TRUE>>,
                     result |-> Append(DEFAULT_IGNORE_PATTERNS, "secret.env")]
    /\ fnCalls[2] = [fn |-> "getAllIgnorePatterns", arg |-> <<"/w/p", FALSE>>,
                     result |-> DEFAULT_IGNORE_PATTERNS]

----------------------------------------------------------------------------
(* connect: input errors, and what a successful connect persists.          *)

\* The target on the command line does not parse as a connection string.
MalformedTarget == TargetGiven /\ parseSshString(options.target[1]) = None

Running == pc \notin {"idle", "exited", "connected"}

\* C27: a connect with a malformed target string exits with code 1 and
\* mutates no state, for every initial key set, one without keys included: no
\* key is generated, the SSH config and known_hosts are not written, no engine
\* command is run and the registry is unchanged.
C27_MalformedTargetMutatesNothing ==
    [][(Running /\ MalformedTarget)
          => /\ UNCHANGED <<sshDir, worldVars>>
             /\ pc' = "exited" => exitCode' = Some(1)]_vars

\* C28: a connect whose path argument is not an existing directory exits with
\* code 1 before any other stage runs: no key is generated, the SSH config and
\* known_hosts are not written, no engine command is run, the registry is
\* unchanged, and the execution takes no further step.
C28_BadPathExitsFirst ==
    [][/\ (run' # run /\ localPath' # "" /\ localPath' \notin Dirs)
             => /\ pc' = "exited" /\ exitCode' = Some(1)
                /\ UNCHANGED <<keyVars, worldVars>>
                /\ probes' = <<>> /\ purges' = <<>> /\ syncLog' = <<>>
                /\ events' = <<>> /\ prompts' = <<>>
       /\ (pc = "exited" /\ localPath # "" /\ localPath \notin Dirs) => run' # run]_vars

C28_Witness ==
    /\ pc = "exited" /\ exitCode = Some(1)
    /\ localPath = "/w/missing"
    /\ ~hasHavenKey(sshDir) /\ findExistingKeys(sshDir) = {}
    /\ options.target = Some("u@h1:2222")
    /\ sshConfig = None

----------------------------------------------------------------------------
(* The command line.                                                        *)

MainRan == cli.handler # "none" /\ Len(cli.argv) > 0

\* runRemote is called exactly when the working directory has a connected
\* ancestor whose entry holds an alias, and then with the vector args.
BridgeGets(args) ==
    /\ cli.bridge # None <=> (cli.found # None /\ cli.found[1].config.sshAlias # None)
    /\ cli.bridge # None => cli.bridge[1].args = args
    /\ cli.bridge = None => pc = "exited" /\ exitCode = Some(1)

HandledAsRemote(args) ==
    /\ cli.handler = "remote"
    /\ cli.remoteArgs = Some(args)
    /\ BridgeGets(args)

NotForwarded == cli.handler # "remote" /\ cli.remoteArgs = None /\ cli.bridge = None

\* C24, as stated: every argument vector whose first argument does not start
\* with '-' and is not connect, disconnect or status is forwarded unmodified
\* as a remote command; a vector whose first argument is one of the three is
\* never forwarded.
C24_ForwardedUnlessThreeReserved ==
    MainRan =>
        LET first == cli.argv[1] IN
        /\ (~startsWithDash(first) /\ first \notin {"connect", "disconnect", "status"})
              => HandledAsRemote(cli.argv)
        /\ first \in {"connect", "disconnect", "status"} => NotForwarded

\* C24, amended: every argument vector whose first argument is not empty, does
\* not start with '-' and is not connect, disconnect, status or help is handed
\* unmodified to the remote-command handler, which passes it unmodified to the
\* bridge when the working directory has a connected ancestor with an alias
\* and exits with 1 otherwise; a vector whose first argument is connect,
\* disconnect, status or help is never forwarded.
C24_ForwardedUnlessReserved ==
    MainRan =>
        LET first == cli.argv[1] IN
        /\ (first # "" /\ ~startsWithDash(first)
               /\ first \notin {"connect", "disconnect", "status", "help"})
              => HandledAsRemote(cli.argv)
        /\ first \in {"connect", "disconnect", "status", "help"} => NotForwarded

C24_Witness ==
    /\ cli.handler = "remote"
    /\ cli.argv = <<"npm", "test", "--", "--watch">>
    /\ cli.cwd = "/w/p/src"
    /\ cli.bridge # None
    /\ cli.bridge[1].args = <<"npm", "test", "--", "--watch">>

\* C25: when the first argument is a literal `--`, the arguments after it are
\* forwarded unmodified as a remote command, also when the first of them is
\* the name of a reserved subcommand; the `--` is not forwarded and no
\* handler of a reserved subcommand runs.
C25_DoubleDashEscapes ==
    (MainRan /\ cli.argv[1] = "--") =>
        /\ HandledAsRemote(Rest(cli.argv))
        /\ Len(cli.remoteArgs[1]) = Len(cli.argv) - 1
        /\ pc = "exited" /\ exitAt = "remote"
        /\ localPath = "" /\ probes = <<>> /\ syncLog = <<>> /\ events = <<>>
        /\ registry = before.registry /\ sessions = before.sessions
        /\ engine = before.engine

C25_Witness ==
    /\ cli.handler = "remote"
    /\ cli.argv = <<"--", "connect", "/w/p">>
    /\ cli.bridge # None
    /\ cli.bridge[1].args = <<"connect", "/w/p">>
    /\ registry = before.registry

\* The exit code of the process: a handler that returns ends it with 0.
ProcessExitCode == IF pc = "connected" THEN Some(0) ELSE exitCode

\* C26: a forwarded remote command run below a connected directory ends the
\* process with the exit code the bridge returned, whatever its value;
\* connect, disconnect and status end it with 0 or 1 only.
C26_ExitCodes ==
    /\ (cli.handler = "remote" /\ cli.bridge # None)
          => pc = "exited" /\ ProcessExitCode = Some(cli.bridge[1].exitCode)
    /\ (cli.handler \in {"connect", "disconnect", "status"} /\ pc \in {"exited", "connected"})
          => ProcessExitCode \in {Some(0), Some(1)}

C26_Witness ==
    /\ cli.handler = "remote"
    /\ cli.cwd = "/w/p/src"
    /\ cli.bridge # None
    /\ cli.bridge[1].exitCode = 127
    /\ exitCode = Some(127)

\* The directories from the root down to p.
Segments(p) ==
    CASE p = "/" -> <<>>
      [] p = "/w" -> <<"w">>
      [] p = "/w/p" -> <<"w", "p">>
      [] p = "/w/p/src" -> <<"w", "p", "src">>
      [] p = "/w/dist" -> <<"w", "dist">>
      [] p = "/w/missing" -> <<"w", "missing">>

IsAncestorOrSelf(a, p) ==
    /\ Len(Segments(a)) <= Len(Segments(p))
    /\ SubSeq(Segments(p), 1, Len(Segments(a))) = Segments(a)

Registered(reg) == {p \in DOMAIN reg : reg[p] # None}

\* The deepest registered ancestor-or-self of p, with its entry.
NearestRegistered(reg, p) ==
    LET c == {a \in Registered(reg) : IsAncestorOrSelf(a, canonicalPath(p))} IN
    IF c = {} THEN None
    ELSE LET a == CHOOSE a \in c : \A b \in c : Len(Segments(b)) <= Len(Segments(a))
         IN Some([localPath |-> a, config |-> reg[a][1]])

LooksUpAncestor ==
    \/ cli.handler \in {"remote", "disconnect", "status"}
    \/ cli.handler = "connect" /\ connectArguments(cli.argv).path = None

\* C30: the registry lookup from a directory returns the entry of its nearest
\* registered ancestor-or-self (the deepest of several) and null when there is
\* none; connect without a path argument and the forwarding of a remote
\* command work on the path and the config of that entry and never register
\* the current subdirectory.
C30_NearestAncestor ==
    LooksUpAncestor =>
        LET nearest == NearestRegistered(before.registry, cli.cwd) IN
        /\ cli.found = nearest
        /\ cli.handler = "remote" =>
              /\ cli.bridge # None =>
                    /\ cli.bridge[1].localPath = nearest[1].localPath
                    /\ cli.bridge[1].config = nearest[1].config
                    /\ cli.bridge[1].sshAlias = nearest[1].config.sshAlias[1]
              /\ nearest = None => cli.bridge = None /\ exitCode = Some(1)
              /\ registry = before.registry
        /\ cli.handler = "connect" =>
              /\ nearest # None => /\ localPath = nearest[1].localPath
                                   /\ found = Some(nearest[1].config)
              /\ nearest = None => pc = "exited" /\ exitCode = Some(1) /\ localPath = ""
              /\ Registered(registry) = Registered(before.registry)
              /\ \A p \in DOMAIN registry :
                    (nearest = None \/ p # nearest[1].localPath)
                       => registry[p] = before.registry[p]

C30_Witness ==
    /\ cli.handler = "connect"
    /\ cli.argv = <<"connect">>
    /\ cli.cwd = "/w/p/src"
    /\ pc = "connected"
    /\ localPath = "/w/p"
    /\ before.registry["/w"] # None
    /\ before.registry["/w/p"] # None
    /\ registry["/w/p"][1].host = "h1"
    /\ Registered(registry) = {"/w", "/w/p"}

----------------------------------------------------------------------------
(* The shape of a host block.                                               *)

\* The option lines every host block ends with.
HardenedTail ==
    <<<<"ForwardAgent", "no">>, <<"ForwardX11", "no">>,
      <<"StrictHostKeyChecking", "accept-new">>, <<"ServerAliveInterval", "5">>,
      <<"ServerAliveCountMax", "3">>>>

PortText(port) == IF port = 22 THEN "22" ELSE IF port = 2222 THEN "2222" ELSE "?"

\* C32: the host block rendered for (alias, host, port, user) is the line
\* Host <alias>, then HostName, Port and User with the given values, then
\* exactly one IdentityFile line per discovered key (none without keys), then
\* the fixed tail ForwardAgent no, ForwardX11 no, StrictHostKeyChecking
\* accept-new, ServerAliveInterval 5, ServerAliveCountMax 3.
C32_HostBlockShape ==
    kres.op = "generateHostConfig" =>
        LET b == kres.block
            n == Cardinality(findExistingKeys(sshDir))
        IN /\ Len(b) = 4 + n + 5
           /\ b[1].words = <<"Host", kres.alias>> /\ ~b[1].indent
           /\ b[2].words = <<"HostName", kres.host>>
           /\ b[3].words = <<"Port", PortText(kres.port)>>
           /\ b[4].words = <<"User", kres.user>>
           /\ \A i \in 5..(4 + n) :
                 Len(b[i].words) = 2 /\ b[i].words[1] = "IdentityFile"
           /\ {b[i].words[2] : i \in 5..(4 + n)} = findExistingKeys(sshDir)
           /\ \A i \in 1..5 : b[4 + n + i].words = HardenedTail[i]
           /\ \A i \in 2..Len(b) : b[i].indent /\ ~b[i].trail

C32_Witness ==
    /\ kres.op = "generateHostConfig"
    /\ kres.port = 22
    /\ findExistingKeys(sshDir) = {"haven_ed25519", "my_custom_key"}
    /\ Len(kres.block) = 11

C32_WitnessNoKey ==
    /\ kres.op = "generateHostConfig"
    /\ findExistingKeys(sshDir) = {}
    /\ Len(kres.block) = 9

----------------------------------------------------------------------------
(* The idle timeout of the session state.                                   *)

\* The seconds of a duration text; none for text that is no duration.
SecondsOf(text) ==
    CASE text = "30m" -> Some(30 * 60)
      [] text = "1h" -> Some(60 * 60)
      [] OTHER -> None

IdleOptionGiven == options.idleTimeout # None /\ options.idleTimeout[1] # ""

C39_WitnessRemote ==
    /\ pc = "connected"
    /\ options.idleTimeout = None
    /\ EventsOf("getRemoteEnv") = <<[kind |-> "getRemoteEnv", detail |-> Some("1h")]>>
    /\ sessions[localPath][1].idleTimeout = Some(60 * 60)

----------------------------------------------------------------------------
(* The status of a sync session.                                            *)

StatusCalls == {i \in DOMAIN syncOps : syncOps[i].op = "status" /\ syncOps[i].installed}

ListFailed(o) == \E k \in DOMAIN o.failed : o.failed[k].cmd = "list"

\* C37: getSyncStatus returns status disconnected with empty conflicts whenever
\* the engine lists no session with the id of the path or the list command
\* exits non-zero (errors then holds the engine's stderr); after a successful
\* stop and before the next start the status is disconnected, never unknown
\* or a stale active status.
C37_DisconnectedWhenAbsent ==
    \A i \in StatusCalls :
        LET o == syncOps[i] IN
        /\ o.outcome = "return" /\ o.result # None
        /\ ListFailed(o)
              => o.result[1] = [status |-> "disconnected", conflicts |-> <<>>,
                                errors |-> <<o.stderr>>]
        /\ (~ListFailed(o) /\ o.before[SyncName] = <<>>)
              => o.result[1] = [status |-> "disconnected", conflicts |-> <<>>,
                                errors |-> <<>>]
        /\ (i > 1 /\ syncOps[i - 1].op = "stop" /\ syncOps[i - 1].outcome = "return")
              => o.result[1].status = "disconnected" /\ o.result[1].conflicts = <<>>

C37_Witness ==
    /\ Len(syncOps) = 3
    /\ syncOps[1].op = "status" /\ syncOps[1].installed
    /\ syncOps[1].result = Some([status |-> "watching", conflicts |-> <<>>, errors |-> <<>>])
    /\ syncOps[2].op = "stop" /\ syncOps[2].outcome = "return"
    /\ syncOps[2].before[SyncName] # <<>>
    /\ syncOps[3].op = "status" /\ syncOps[3].installed /\ syncOps[3].failed = <<>>
    /\ syncOps[3].result = Some([status |-> "disconnected", conflicts |-> <<>>, errors |-> <<>>])

----------------------------------------------------------------------------
(* connect on an unusually broad path.                                      *)

\* The local path is one of the listed system or home paths, or its base name
\* is one of the listed dependency or build directory names.
BroadPath(p) == p \in SUSPICIOUS_PATHS \/ baseName(p) \in SUSPICIOUS_NAMES

\* The command line is a connect with a path argument.
ConnectGivenPath(c) ==
    c.handler = "connect" /\ connectArguments(c.argv).path # None

\* What the operator typed at the broad-path prompt is "y" in either case.
AnsweredYes(e) == Len(e) > 0 /\ e[Len(e)].kind = "answer" /\ e[Len(e)].detail \in {"y", "Y"}

\* C38: when connect is given a suspiciously broad path and the operator does
\* not answer 'y', the process exits with code 0 and nothing is mutated: no
\* key is generated, no SSH config is written, no probe or engine command is
\* run, and the registry is unchanged.
C38_BroadPathDeclinedMutatesNothing ==
    [][/\ (run' # run /\ ConnectGivenPath(cli') /\ localPath' \in Dirs
             /\ BroadPath(localPath'))
             => /\ pc' = "confirmBroad"
                /\ UNCHANGED <<sshDir, agent, worldVars>>
                /\ probes' = <<>> /\ purges' = <<>> /\ syncLog' = <<>>
       /\ (pc = "confirmBroad" /\ ~AnsweredYes(events'))
             => /\ pc' = "exited" /\ exitCode' = Some(0)
                /\ UNCHANGED <<sshDir, agent, worldVars, probes, purges, syncLog>>]_vars

C38_Witness ==
    /\ pc = "exited" /\ exitAt = "confirmBroad" /\ exitCode = Some(0)
    /\ localPath = "/w/dist"
    /\ events = <<[kind |-> "answer", detail |-> ""]>>
    /\ probes = <<>> /\ syncLog = <<>>

----------------------------------------------------------------------------
(* What the engine session of a connected path synchronizes with.           *)

\* C33: after a connect for a local path completes successfully, every engine
\* session with the session id of the path synchronizes the path with exactly
\* the alias and remote path this connect stored in the registry, also when
\* an earlier connect with a different target left a session in the engine.
C33_SessionSyncsStoredTarget ==
    pc = "connected" =>
        /\ engine[sessionNames[localPath]] # <<>>
        /\ \A i \in DOMAIN engine[sessionNames[localPath]] :
              LET s == engine[sessionNames[localPath]][i] IN
              /\ s.alpha = localPath
              /\ s.beta = <<registry[localPath][1].sshAlias[1],
                            registry[localPath][1].remotePath>>

----------------------------------------------------------------------------
(* The analysis of keys whose probes fail.                                  *)

Analyzed == kres.op = "analyzeKeys"

\* The file an analysis is about.
FileOf(a) == sshDir.files[a.key]

OnePerDiscoveredKey ==
    /\ {a.key : a \in kres.analyses} = {n \in KeyNames : FileOf([key |-> n]).priv
                                                        /\ FileOf([key |-> n]).pub = "valid"}
    /\ Cardinality(kres.analyses) = Cardinality({a.key : a \in kres.analyses})

\* C40 as stated: a key whose analysis fails (private file unreadable or
\* malformed, or fingerprint not obtainable) is reported by analyzeKeys as
\* encrypted = true, inAgent = false, usable = false, the scan still returns
\* one analysis for every discovered key, and a failing agent listing yields
\* inAgent = false for every key.
C40_FailedAnalysisIsUnusable ==
    Analyzed =>
        /\ OnePerDiscoveredKey
        /\ \A a \in kres.analyses :
              /\ FileOf(a).fp = NoFingerprint
                    => a.encrypted /\ ~a.inAgent /\ ~a.usable
              /\ ~agent.ok => ~a.inAgent

\* C40, amended: a key whose empty-passphrase probe fails is reported as
\* encrypted = true and a key whose fingerprint is not obtainable as inAgent =
\* false; a key for which both fail is encrypted, not in the agent and not
\* usable; usable is always !encrypted || inAgent; the scan returns one
\* analysis for every discovered key, and a failing agent listing yields
\* inAgent = false for every key.
C40_FailedProbesReported ==
    Analyzed =>
        /\ OnePerDiscoveredKey
        /\ \A a \in kres.analyses :
              /\ FileOf(a).passphrase => a.encrypted
              /\ FileOf(a).fp = NoFingerprint => ~a.inAgent
              /\ (FileOf(a).passphrase /\ FileOf(a).fp = NoFingerprint)
                    => a.encrypted /\ ~a.inAgent /\ ~a.usable
              /\ a.usable <=> (~a.encrypted \/ a.inAgent)
              /\ ~agent.ok => ~a.inAgent

C40_Witness ==
    /\ Analyzed
    /\ Cardinality(kres.analyses) = 2
    /\ \E a \in kres.analyses :
          /\ FileOf(a).passphrase /\ FileOf(a).fp = NoFingerprint
          /\ a.encrypted /\ ~a.inAgent /\ ~a.usable
    /\ \E a \in kres.analyses : ~FileOf(a).passphrase /\ FileOf(a).fp = NoFingerprint /\ a.usable

----------------------------------------------------------------------------
(* execSafe: one subprocess with a timer, and the events of the child.      *)

\* How many calls of execSafe a behaviour holds, and how many chunks of output
\* a child writes.
MaxExecCalls == 2
MaxData == 2

\* What `sh -c command` does: it cannot be spawned, it runs the command
\* itself, or the command runs in processes forked by the shell, which hold
\* the output pipes of the shell or have redirected their output.
Commands ==
    {[spawnOk |-> FALSE, desc |-> 0, descPipes |-> FALSE],
     [spawnOk |-> TRUE, desc |-> 0, descPipes |-> FALSE],
     [spawnOk |-> TRUE, desc |-> 1, descPipes |-> TRUE],
     [spawnOk |-> TRUE, desc |-> 1, descPipes |-> FALSE]}

\* resolve and reject of a promise: the first call settles it, later calls
\* are ignored.
Settle(p, v) == IF p = None THEN Some(v) ELSE p

Fulfilled(out) == [kind |-> "resolve", value |-> <<"stdout", out>>]
RejectedWith(why) == [kind |-> "reject", value |-> why]

CallsMade == IF child.phase = "none" THEN 0 ELSE child.n

ExecFrame ==
    UNCHANGED <<keyVars, worldVars, execVars, logVars, cfgStart, cfgPrev, cfgOps,
                syncOps, syncMsgs, gitignore, fnCalls, cli, writers>>

\* Lines 16-29: the child is spawned and the timer armed.  A spawn that fails
\* leaves no process; its 'error' event is emitted on the next tick.
CallExecSafe ==
    /\ child.phase \in {"none", "done"}
    /\ CallsMade < MaxExecCalls
    /\ \E c \in Commands :
          child' = [phase |-> "running", n |-> CallsMade + 1,
                    sh |-> IF c.spawnOk THEN "running" ELSE "exited",
                    code |-> IF c.spawnOk THEN None ELSE Some(-2),
                    desc |-> c.desc, descPipes |-> c.descPipes,
                    errPending |-> ~c.spawnOk,
                    killed |-> FALSE, signalled |-> FALSE, timer |-> "armed",
                    promise |-> None, calls |-> <<>>, order |-> <<>>, out |-> 0]
    /\ ExecFrame

\* Lines 31-32: a chunk arrives on a pipe that a process still holds.
OnData ==
    /\ child.phase = "running"
    /\ child.sh = "running" \/ (child.desc > 0 /\ child.descPipes)
    /\ child.out < MaxData
    /\ child' = [child EXCEPT !.out = @ + 1]
    /\ ExecFrame

\* The shell exits on its own.
ShellExits ==
    /\ child.phase = "running" /\ child.sh = "running"
    /\ \E c \in {0, 1} : child' = [child EXCEPT !.sh = "exited", !.code = Some(c)]
    /\ ExecFrame

\* A process forked by the shell exits on its own.
DescendantExits ==
    /\ child.phase \in {"running", "done"} /\ child.desc > 0
    /\ child' = [child EXCEPT !.desc = @ - 1]
    /\ ExecFrame

\* Lines 25-29: the timer fires.  child.kill('SIGKILL') signals the process
\* that was spawned, the shell; a shell that has exited is not signalled.
OnTimeout ==
    /\ child.phase \in {"running", "done"}
    /\ child.timer = "armed" /\ ~child.errPending
    /\ child' = [child EXCEPT !.timer = "fired",
                              !.killed = TRUE,
                              !.signalled = (child.sh = "running"),
                              !.sh = "exited",
                              !.code = IF child.sh = "running" THEN None ELSE @,
                              !.promise = Settle(@, RejectedWith(<<"timeout">>)),
                              !.calls = Append(@, RejectedWith(<<"timeout">>)),
                              !.order = Append(@, "timeout")]
    /\ ExecFrame

\* The 'close' handler without clearTimeout.
OnClose_KeepsTimer ==
    /\ child.phase = "running" /\ ~child.errPending
    /\ child.sh = "exited" /\ ~(child.desc > 0 /\ child.descPipes)
    /\ LET v == IF child.code = Some(0) THEN Fulfilled(child.out)
                ELSE RejectedWith(<<"exit code", child.code>>)
       IN child' = [child EXCEPT !.phase = "done",
                                 !.promise = IF child.killed THEN @ ELSE Settle(@, v),
                                 !.calls = IF child.killed THEN @ ELSE Append(@, v),
                                 !.order = Append(@, "close")]
    /\ ExecFrame

\* Lines 34-42: 'close' is emitted when the shell has exited and no process
\* holds its output pipes any more.
OnClose ==
    /\ child.phase = "running" /\ ~child.errPending
    /\ child.sh = "exited" /\ ~(child.desc > 0 /\ child.descPipes)
    /\ LET v == IF child.code = Some(0) THEN Fulfilled(child.out)
                ELSE RejectedWith(<<"exit code", child.code>>)
       IN child' = [child EXCEPT !.phase = "done",
                                 !.timer = IF @ = "armed" THEN "cleared" ELSE @,
                                 !.promise = IF child.killed THEN @ ELSE Settle(@, v),
                                 !.calls = IF child.killed THEN @ ELSE Append(@, v),
                                 !.order = Append(@, "close")]
    /\ ExecFrame

\* Lines 44-47: 'error' is emitted for a child that could not be spawned.
OnError ==
    /\ child.phase = "running" /\ child.errPending
    /\ child' = [child EXCEPT !.errPending = FALSE,
                              !.timer = IF @ = "armed" THEN "cleared" ELSE @,
                              !.promise = IF child.killed THEN @
                                          ELSE Settle(@, RejectedWith(<<"spawn">>)),
                              !.calls = IF child.killed THEN @
                                        ELSE Append(@, RejectedWith(<<"spawn">>)),
                              !.order = Append(@, "error")]
    /\ ExecFrame

ExecInit ==
    /\ sshDir = [exists |-> TRUE,
                 files |-> FilesWith("id_ed25519",
                              [priv |-> TRUE, pub |-> "valid", passphrase |-> FALSE,
                               fp |-> "SHA256:a"])]
    /\ agent = [ok |-> TRUE, fps |-> {"SHA256:a"}]
    /\ kres = [op |-> "none"]
    /\ Fresh
    /\ ExecIdle
    /\ CallIdle

ExecNext ==
    \/ CallExecSafe
    \/ OnData
    \/ ShellExits
    \/ DescendantExits
    \/ OnTimeout
    \/ OnClose
    \/ OnError

ExecSpec == ExecInit /\ [][ExecNext]_vars

\* C31: every subprocess run through execSafe that has not closed when its
\* timeout elapses is forcibly killed, the kill reaching the whole process
\* group of the child so that no descendant of the command is left running,
\* and the call is rejected with a timeout error.
C31_TimeoutKillsProcessGroup ==
    (child.phase # "none" /\ child.timer = "fired") =>
        /\ child.sh = "exited"
        /\ child.desc = 0
        /\ child.promise = Some(RejectedWith(<<"timeout">>))

\* C36: execSafe settles its promise exactly once under every interleaving of
\* the timeout, close and error events of the child: if the timeout fires
\* first the result is the rejection 'timeout' even when a later close
\* reports exit code 0; if close arrives first the timer is cleared, the child
\* is never signalled, and the result is resolve on exit code 0 and reject
\* otherwise.
C36_SettlesExactlyOnce ==
    child.phase # "none" =>
        /\ child.promise = IF child.calls = <<>> THEN None ELSE Some(child.calls[1])
        /\ child.phase = "done" => child.promise # None
        /\ (child.order # <<>> /\ child.order[1] = "timeout")
              => child.promise = Some(RejectedWith(<<"timeout">>))
        /\ (child.order # <<>> /\ child.order[1] = "close")
              => /\ child.timer = "cleared" /\ ~child.signalled /\ ~child.killed
                 /\ child.promise = IF child.code = Some(0) THEN Some(Fulfilled(child.out))
                                    ELSE Some(RejectedWith(<<"exit code", child.code>>))

\* The shell exited with 0 before the timer fired, and 'close' came after it.
C36_Witness ==
    /\ child.phase = "done"
    /\ child.order = <<"timeout", "close">>
    /\ child.code = Some(0)
    /\ child.promise = Some(RejectedWith(<<"timeout">>))

C36_WitnessCloseFirst ==
    /\ child.phase = "done" /\ child.order = <<"close">>
    /\ child.code = Some(0) /\ child.out = 2
    /\ child.promise = Some(Fulfilled(2)) /\ child.timer = "cleared"

----------------------------------------------------------------------------
(* writeHostConfig in two CLI processes that run at the same time, each for *)
(* its own local path and alias.                                           *)

\* How many calls of writeHostConfig each process makes.
MaxWrites == 1

\* The connects of the two processes: different local paths, hosts and aliases.
WriterCalls ==
    <<[alias |-> AliasA, host |-> "h1", user |-> "u"],
      [alias |-> AliasB, host |-> "h2", user |-> "u"]>>

RaceFrame ==
    UNCHANGED <<keyVars, registry, sessions, knownHosts, engine, execVars, logVars,
                cfgStart, cfgPrev, cfgOps, syncOps, syncMsgs, gitignore, fnCalls, cli, child>>

\* Lines 26-29: the process reads the file, when it exists, into existingContent.
ReadConfigFile(w) ==
    /\ writers[w].pc \in {"idle", "done"}
    /\ writers[w].n < MaxWrites
    /\ writers' = [writers EXCEPT ![w] = [@ EXCEPT !.pc = "read", !.existingContent = sshConfig]]
    /\ UNCHANGED sshConfig
    /\ RaceFrame

\* Lines 31-36: the block of the alias is cut out of what was read, the new
\* block appended and the file overwritten with the result.
WriteConfigFile(w) ==
    /\ writers[w].pc = "read"
    /\ sshConfig' = writeHostConfig(writers[w].existingContent, sshDir, WriterCalls[w].alias,
                                    WriterCalls[w].host, WriterCalls[w].alias[3],
                                    WriterCalls[w].user)
    /\ writers' = [writers EXCEPT ![w] = [@ EXCEPT !.pc = "done", !.n = @ + 1]]
    /\ RaceFrame

RaceInit ==
    /\ sshDir = [exists |-> TRUE,
                 files |-> FilesWith("id_ed25519",
                              [priv |-> TRUE, pub |-> "valid", passphrase |-> FALSE,
                               fp |-> "SHA256:a"])]
    /\ agent = [ok |-> TRUE, fps |-> {"SHA256:a"}]
    /\ kres = [op |-> "none"]
    /\ registry = [p \in RegistryPaths |-> None]
    /\ sessions = [p \in RegistryPaths |-> None]
    /\ sshConfig \in ConfigFiles
    /\ knownHosts = Some({hostEntry("h1", 2222), hostEntry("h2", 22)})
    /\ engine = NoSyncSessions
    /\ ExecIdle
    /\ cfgStart = None /\ cfgPrev = None /\ cfgOps = <<>>
    /\ syncOps = <<>> /\ syncMsgs = <<>>
    /\ gitignore = None /\ fnCalls = <<>> /\ cli = NoCli
    /\ child = NoChild
    /\ writers = [w \in 1..2 |-> [pc |-> "idle", existingContent |-> None, n |-> 0]]

RaceNext ==
    \/ \E w \in 1..2 : ReadConfigFile(w)
    \/ \E w \in 1..2 : WriteConfigFile(w)

RaceSpec == RaceInit /\ [][RaceNext]_vars

\* C34: with invocations allowed to interleave across different local paths,
\* no Host block written by a completed writeHostConfig is lost: both
\* processes end with their own Host block present in the SSH config file.
C34_NoHostBlockLost ==
    \A w \in DOMAIN writers :
        writers[w].pc = "done"
            => /\ sshConfig # None
               /\ NumBlocks(TextOf(sshConfig), WriterCalls[w].alias) >= 1

----------------------------------------------------------------------------
(* Termination of connect.                                                  *)

\* A step of a connect execution that has started: a prompt is answered or a
\* subprocess (ssh, ssh-keygen, ssh-add, the engine) exits and the code goes on.
ConnectStep ==
    \/ AnswerBroadPath
    \/ EnsureKey
    \/ ResolveAndWrite
    \/ Probe
    \/ AnswerReconnect
    \/ RetryProbe
    \/ ReadIdleTimeout
    \/ AnswerGitignore
    \/ StartSync

\* The steps whose enabling condition is evaluated on the action itself.
StageSteps ==
    \/ AnswerBroadPath
    \/ EnsureKey
    \/ Probe
    \/ AnswerReconnect
    \/ RetryProbe
    \/ ReadIdleTimeout
    \/ AnswerGitignore
    \/ StartSync

\* The step out of the resolve stage.  ResolveAndWrite is the only action
\* that changes pc in this stage and it is enabled in every state of the
\* stage, so weak fairness of this step is weak fairness of ResolveAndWrite;
\* its enabling condition does not need the text of the SSH config.
LeaveResolve == pc = "resolve" /\ pc' \in {"probe", "exited"}

\* The one connect execution of a behaviour, from every start of Init.
FirstConnect == run = 0 /\ ConnectStart

\* Every prompt is answered and every subprocess exits.
FairSpec ==
    /\ Init
    /\ [][FirstConnect \/ ConnectStep]_vars
    /\ WF_vars(StageSteps)
    /\ WF_pc(LeaveResolve)

\* The stages of connect in the order of the code; the retry of the probe
\* after a host key reset is a stage of its own.
Rank(stage) ==
    CASE stage = "confirmBroad" -> 1
      [] stage = "ensureKey" -> 2
      [] stage = "resolve" -> 3
      [] stage = "probe" -> 4
      [] stage = "confirmReconnect" -> 5
      [] stage = "retry" -> 6
      [] stage = "idleTimeout" -> 7
      [] stage = "askGitignore" -> 8
      [] stage = "sync" -> 9
      [] OTHER -> 10

\* C35: every connect execution terminates: when each prompt is answered and
\* each subprocess exits, the execution eventually reaches CONNECTED or a
\* process exit, and the state machine has no cycle other than the single
\* bounded PROBE -> RESET_HOST_KEY -> PROBE retry: every step moves to a later
\* stage and a probe is launched at most twice.
C35_ConnectTerminates ==
    /\ [][Running => (Rank(pc') > Rank(pc) /\ Len(probes') <= 2)]_vars
    /\ Running ~> ~Running

C35_Witness ==
    /\ pc = "connected"
    /\ Len(probes) = 2 /\ purges = <<"rotated">>

====
